---- MODULE Spec2Model ----
(***************************************************************************)
(* A model of heybabe's TLS fragmentation adapter (bepass/tlsfrag) and of  *)
(* the ClientHello reader it uses (bepass/sni).                            *)
(*                                                                         *)
(* Bytes are the integers 0..255, a []byte is a sequence of bytes.  Go     *)
(* slices are 0-based and half-open; Sub, From and At keep the indices of  *)
(* the source.                                                             *)
(***************************************************************************)
EXTENDS Integers, Sequences, FiniteSets, TLC

\* ------------------------------------------------------------------------
\* Go slice notation
\* ------------------------------------------------------------------------

\* s[i:j]
Sub(s, i, j) == SubSeq(s, i + 1, j)

\* s[i:]
From(s, i) == SubSeq(s, i + 1, Len(s))

\* s[i]
At(s, i) == s[i + 1]

\* uint16(s[i])<<8 | uint16(s[i+1])
U16(s, i) == At(s, i) * 256 + At(s, i + 1)

\* int(s[i])<<16 | int(s[i+1])<<8 | int(s[i+2])
U24(s, i) == At(s, i) * 65536 + At(s, i + 1) * 256 + At(s, i + 2)

MinOf(S) == CHOOSE x \in S : \A y \in S : x <= y

RECURSIVE Concat(_)
\* the concatenation of a sequence of byte sequences
Concat(ss) == IF ss = <<>> THEN <<>> ELSE Head(ss) \o Concat(Tail(ss))

RECURSIVE SumSeq(_)
SumSeq(ns) == IF ns = <<>> THEN 0 ELSE Head(ns) + SumSeq(Tail(ns))

\* ------------------------------------------------------------------------
\* bepass/sni: constants
\* ------------------------------------------------------------------------

recordHeaderLen == 5
recordTypeHandshake == 22
typeClientHello == 1
extensionServerName == 0
extensionStatusRequest == 5
extensionSupportedCurves == 10
extensionSupportedPoints == 11
extensionSessionTicket == 35
extensionNextProtoNeg == 13172
statusTypeOCSP == 1

\* the capacity reserve gives a block that has none
blockBaseCap == 1024
\* typ == 0x80: an SSLv2 client
sslv2Type == 128
\* versions >= 0x1000 is "probably not real"
versionLimit == 4096
\* the least length of a ClientHello handshake message unmarshal accepts
minHelloLen == 42
\* the greatest session id length unmarshal accepts
maxSessionIDLen == 32

\* the error values of the package
ErrNil == "nil"
ErrEOF == "EOF"
ErrNotTLS == "not a tls packet"
ErrSSLv2 == "tls: unsupported SSLv2 handshake received"

\* ------------------------------------------------------------------------
\* bepass/sni: block
\* ------------------------------------------------------------------------

\* a nil *block
NilBlock == [isNil |-> TRUE, data |-> <<>>, cap |-> 0, off |-> 0, spare |-> <<>>]

\* new(block).  data is b.data[0:len], cap its capacity; spare is what the
\* backing array holds after len from earlier writes (zeros after that)
newBlock == [isNil |-> FALSE, data |-> <<>>, cap |-> 0, off |-> 0, spare |-> <<>>]

\* s[:m] and s[m:] of a sequence that may be shorter than m
takeFirst(s, m) == IF m >= Len(s) THEN s ELSE Sub(s, 0, m)
dropFirst(s, m) == IF m >= Len(s) THEN <<>> ELSE From(s, m)

RECURSIVE doubleUntil(_, _)
\* for m < n { m *= 2 }
doubleUntil(m, n) == IF m < n THEN doubleUntil(m * 2, n) ELSE m

\* reserve makes sure that block contains a capacity of at least n bytes
reserve(b, n) ==
  IF b.cap >= n THEN b
  ELSE [b EXCEPT !.cap = doubleUntil(IF b.cap = 0 THEN blockBaseCap ELSE b.cap, n),
                 !.spare = <<>>]

\* b.data = b.data[0:n] within the capacity: a shorter slice leaves its bytes
\* in the backing array, a longer one uncovers what the array holds
reslice(b, n) ==
  IF n <= Len(b.data)
  THEN [b EXCEPT !.data = Sub(b.data, 0, n), !.spare = From(b.data, n) \o b.spare]
  ELSE [b EXCEPT !.data = b.data \o takeFirst(b.spare, n - Len(b.data))
                            \o [i \in 1..(n - Len(b.data) - Len(b.spare)) |-> 0],
                 !.spare = dropFirst(b.spare, n - Len(b.data))]

\* resize resizes block to be n bytes, growing if necessary
resize(b, n) == reslice(IF n > b.cap THEN reserve(b, n) ELSE b, n)

\* (*bytes.Reader).Read(p) with len(p) = plen, on the reader rd = [s, i]:
\* io.EOF once the data is used up, else as many bytes as fit
readerRead(rd, plen) ==
  IF rd.i >= Len(rd.s) THEN [n |-> 0, bytes |-> <<>>, err |-> ErrEOF, rd |-> rd]
  ELSE LET n == IF plen < Len(rd.s) - rd.i THEN plen ELSE Len(rd.s) - rd.i
       IN [n |-> n, bytes |-> Sub(rd.s, rd.i, rd.i + n), err |-> ErrNil,
           rd |-> [rd EXCEPT !.i = rd.i + n]]

\* Read(p) with len(p) = plen of a source that is not a bytes.Reader, rd =
\* [script, log]: the script is what its reads return one after the other,
\* bytes with or without an error, and io.EOF after the last; a read into a
\* shorter p returns the first plen bytes and leaves the rest.  The log is
\* what its reads returned.
scriptRead(rd, plen) ==
  IF rd.script = <<>>
  THEN [n |-> 0, bytes |-> <<>>, err |-> ErrEOF,
        rd |-> [rd EXCEPT !.log = Append(@, [n |-> 0, bytes |-> <<>>, err |-> ErrEOF])]]
  ELSE IF plen < Len(Head(rd.script).data)
  THEN [n |-> plen, bytes |-> Sub(Head(rd.script).data, 0, plen), err |-> ErrNil,
        rd |-> [script |-> <<[Head(rd.script) EXCEPT !.data = From(@, plen)]>>
                             \o Tail(rd.script),
                log |-> Append(rd.log, [n |-> plen,
                                        bytes |-> Sub(Head(rd.script).data, 0, plen),
                                        err |-> ErrNil])]]
  ELSE [n |-> Len(Head(rd.script).data), bytes |-> Head(rd.script).data,
        err |-> Head(rd.script).err,
        rd |-> [script |-> Tail(rd.script),
                log |-> Append(rd.log, [n |-> Len(Head(rd.script).data),
                                        bytes |-> Head(rd.script).data,
                                        err |-> Head(rd.script).err])]]

\* r.Read(p) of the io.Reader rd: a bytes.Reader or a scripted source
sourceRead(rd, plen) ==
  IF "script" \in DOMAIN rd THEN scriptRead(rd, plen) ELSE readerRead(rd, plen)

\* readFromUntil that returns the error of a read before it looks at the
\* length
readLoopPassErrorFirst(b, n, r) ==
  [b |-> [b EXCEPT !.data = b.data \o r.bytes, !.spare = dropFirst(b.spare, r.n)],
   rd |-> r.rd,
   err |-> r.err,
   again |-> Len(b.data) + r.n < n /\ r.err = ErrNil]

\* one pass of the for loop of readFromUntil, r being what r.Read returned:
\* the block with the bytes read, and whether to break, return err or go on
readLoopPass(b, n, r) ==
  [b |-> [b EXCEPT !.data = b.data \o r.bytes, !.spare = dropFirst(b.spare, r.n)],
   rd |-> r.rd,
   err |-> IF Len(b.data) + r.n >= n THEN ErrNil ELSE r.err,
   again |-> Len(b.data) + r.n < n /\ r.err = ErrNil]

RECURSIVE readLoop(_, _)
\* the for loop of readFromUntil, p being its last pass
readLoop(p, n) ==
  IF ~p.again THEN [b |-> p.b, rd |-> p.rd, err |-> p.err]
  ELSE readLoop(readLoopPass(p.b, n, sourceRead(p.rd, p.b.cap - Len(p.b.data))), n)

\* readFromUntil after b.reserve(n)
readIntoReserved(b, rd, n) ==
  readLoop(readLoopPass(b, n, sourceRead(rd, b.cap - Len(b.data))), n)

\* readFromUntil reads from r into b until b contains at least n bytes
\* or else returns an error
readFromUntil(b, rd, n) ==
  IF Len(b.data) >= n THEN [b |-> b, rd |-> rd, err |-> ErrNil]
  ELSE readIntoReserved(reserve(b, n), rd, n)

\* splitBlock whose remainder starts one byte late
splitBlockSkipByte(b, n) ==
  IF Len(b.data) <= n + 1 THEN [first |-> b, rest |-> NilBlock]
  ELSE LET bb == resize(newBlock, Len(b.data) - n - 1)
       IN [first |-> [b EXCEPT !.data = Sub(b.data, 0, n)],
           rest |-> [bb EXCEPT !.data = From(b.data, n + 1)]]

\* splitBlock splits a block after the first n bytes
splitBlock(b, n) ==
  IF Len(b.data) <= n THEN [first |-> b, rest |-> NilBlock]
  ELSE LET bb == resize(newBlock, Len(b.data) - n)
       IN [first |-> reslice(b, n),
           rest |-> [bb EXCEPT !.data = From(b.data, n)]]

\* (*block).Read(p) with len(p) = plen: n = copy(p, b.data[b.off:]), which
\* panics when off is beyond the length
blockRead(b, plen) ==
  IF b.off > Len(b.data) THEN [panic |-> TRUE, n |-> 0, bytes |-> <<>>, b |-> b]
  ELSE [panic |-> FALSE, n |-> MinOf({plen, Len(b.data) - b.off}),
        bytes |-> Sub(b.data, b.off, b.off + MinOf({plen, Len(b.data) - b.off})),
        b |-> [b EXCEPT !.off = b.off + MinOf({plen, Len(b.data) - b.off})]]

\* ------------------------------------------------------------------------
\* bepass/sni: the record layer
\* ------------------------------------------------------------------------

\* the variables the readRecord closure captures, at the start of
\* ReadClientHello over the reader bytes.NewReader(input)
readerInit(input) ==
  [nextBlock |-> NilBlock, hand |-> <<>>, rd |-> [s |-> input, i |-> 0],
   err |-> ErrNil]

\* readRecord that drops what the block holds after the record
readRecordPayloadDropRest(st, n, r2) ==
  IF r2.err # ErrNil
  THEN [st EXCEPT !.nextBlock = r2.b, !.rd = r2.rd, !.err = r2.err]
  ELSE [nextBlock |-> NilBlock,
        hand |-> st.hand \o Sub(splitBlock(r2.b, recordHeaderLen + n).first.data,
                                recordHeaderLen, recordHeaderLen + n),
        rd |-> r2.rd, err |-> ErrNil]

\* readRecord with the record whole in the block: split it off, append its
\* payload to hand
readRecordPayload(st, n, r2) ==
  IF r2.err # ErrNil
  THEN [st EXCEPT !.nextBlock = r2.b, !.rd = r2.rd, !.err = r2.err]
  ELSE [nextBlock |-> splitBlock(r2.b, recordHeaderLen + n).rest,
        hand |-> st.hand \o Sub(splitBlock(r2.b, recordHeaderLen + n).first.data,
                                recordHeaderLen, recordHeaderLen + n),
        rd |-> r2.rd, err |-> ErrNil]

\* the checks of the header made once the payload is in the block
readRecordHeaderAfterPayload(st, r1, r2) ==
  IF r2.err # ErrNil
  THEN [st EXCEPT !.nextBlock = r2.b, !.rd = r2.rd, !.err = r2.err]
  ELSE IF At(r1.b.data, 0) = sslv2Type
  THEN [st EXCEPT !.nextBlock = r2.b, !.rd = r2.rd, !.err = ErrSSLv2]
  ELSE IF At(r1.b.data, 0) # recordTypeHandshake \/ U16(r1.b.data, 1) >= versionLimit
  THEN [st EXCEPT !.nextBlock = r2.b, !.rd = r2.rd, !.err = ErrNotTLS]
  ELSE readRecordPayload(st, U16(r1.b.data, 3), r2)

\* readRecord that reads the payload the header declares before it checks
\* the header
readRecordHeaderPayloadFirst(st, r1) ==
  IF r1.err # ErrNil
  THEN [st EXCEPT !.nextBlock = r1.b, !.rd = r1.rd, !.err = r1.err]
  ELSE readRecordHeaderAfterPayload(st, r1,
         readFromUntil(r1.b, r1.rd, recordHeaderLen + U16(r1.b.data, 3)))

\* readRecord with the header in the block: the checks of the type and of the
\* version, then the read of the payload
readRecordHeader(st, r1) ==
  IF r1.err # ErrNil
  THEN [st EXCEPT !.nextBlock = r1.b, !.rd = r1.rd, !.err = r1.err]
  ELSE
    LET typ == At(r1.b.data, 0)
        versions == U16(r1.b.data, 1)
        n == U16(r1.b.data, 3)
    IN IF typ = sslv2Type
       THEN [st EXCEPT !.nextBlock = r1.b, !.rd = r1.rd, !.err = ErrSSLv2]
       ELSE IF typ # recordTypeHandshake \/ versions >= versionLimit
       THEN [st EXCEPT !.nextBlock = r1.b, !.rd = r1.rd, !.err = ErrNotTLS]
       ELSE readRecordPayload(st, n, readFromUntil(r1.b, r1.rd, recordHeaderLen + n))

\* readRecord reads the next TLS record and appends its payload to hand
readRecord(st) ==
  readRecordHeader(st, readFromUntil(IF st.nextBlock.isNil THEN newBlock
                                     ELSE st.nextBlock,
                                     st.rd, recordHeaderLen))

RECURSIVE readRecords(_, _)
\* for hand.Len() < 4+n { readRecord() }
readRecords(st, n) ==
  IF st.err # ErrNil \/ Len(st.hand) >= 4 + n THEN st
  ELSE readRecords(readRecord(st), n)

\* ------------------------------------------------------------------------
\* bepass/sni: ClientHelloMsg
\* ------------------------------------------------------------------------

\* new(ClientHelloMsg).  ServerName, a Go string, is held as the bytes of the
\* string: string([]byte) and []byte(string) copy the bytes as they are.
newClientHelloMsg ==
  [Raw |-> <<>>, Versions |-> 0, Random |-> <<>>, SessionID |-> <<>>,
   CipherSuites |-> <<>>, CompressionMethods |-> <<>>, NextProtoNeg |-> FALSE,
   ServerName |-> <<>>, OcspStapling |-> FALSE, SupportedCurves |-> <<>>,
   SupportedPoints |-> <<>>, TicketSupported |-> FALSE, SessionTicket |-> <<>>]

\* the uint16 values of d[0:2*k], as the loops over CipherSuites and
\* SupportedCurves read them
u16List(d, k) == [i \in 1..k |-> U16(d, 2 * (i - 1))]

\* the loop over the entries that takes the name of the first entry,
\* whatever its name type
scanNamesFirstEntry(d, i, numNames) ==
  IF i >= numNames THEN [ok |-> TRUE, found |-> FALSE, name |-> <<>>]
  ELSE IF Len(d) < 3 THEN [ok |-> FALSE, found |-> FALSE, name |-> <<>>]
  ELSE IF Len(d) - 3 < U16(d, 1) THEN [ok |-> FALSE, found |-> FALSE, name |-> <<>>]
  ELSE [ok |-> TRUE, found |-> TRUE, name |-> Sub(d, 3, 3 + U16(d, 1))]

RECURSIVE scanNames(_, _, _)
\* the loop over the entries of a server_name extension, from entry i on:
\* d is what is left of the data
scanNames(d, i, numNames) ==
  IF i >= numNames THEN [ok |-> TRUE, found |-> FALSE, name |-> <<>>]
  ELSE IF Len(d) < 3 THEN [ok |-> FALSE, found |-> FALSE, name |-> <<>>]
  ELSE
    LET nameType == At(d, 0)
        nameLen == U16(d, 1)
        d3 == From(d, 3)
    IN IF Len(d3) < nameLen THEN [ok |-> FALSE, found |-> FALSE, name |-> <<>>]
       ELSE IF nameType = 0
       THEN [ok |-> TRUE, found |-> TRUE, name |-> Sub(d3, 0, nameLen)]
       ELSE scanNames(From(d3, nameLen), i + 1, numNames)

\* case extensionServerName, r being what the loop over the names found
serverNameCase(m, r) ==
  [ok |-> r.ok, m |-> IF r.found THEN [m EXCEPT !.ServerName = r.name] ELSE m]

\* the switch over the extension number: data starts at the body of the
\* extension and runs to the end of the message
unmarshalExtension(extension, length, data, m) ==
  CASE extension = extensionServerName ->
         IF length < 2 THEN [ok |-> FALSE, m |-> m]
         ELSE serverNameCase(m, scanNames(From(data, 2), 0, U16(data, 0)))
    [] extension = extensionNextProtoNeg ->
         IF length > 0 THEN [ok |-> FALSE, m |-> m]
         ELSE [ok |-> TRUE, m |-> [m EXCEPT !.NextProtoNeg = TRUE]]
    [] extension = extensionStatusRequest ->
         IF length < 1 THEN [ok |-> FALSE, m |-> m]
         ELSE [ok |-> TRUE,
               m |-> IF At(data, 0) = statusTypeOCSP
                     THEN [m EXCEPT !.OcspStapling = TRUE] ELSE m]
    [] extension = extensionSupportedCurves ->
         IF length < 2 THEN [ok |-> FALSE, m |-> m]
         ELSE LET lVal == U16(data, 0)
              IN IF lVal % 2 # 0 \/ length # lVal + 2 THEN [ok |-> FALSE, m |-> m]
                 ELSE [ok |-> TRUE,
                       m |-> [m EXCEPT !.SupportedCurves =
                                         u16List(From(data, 2), lVal \div 2)]]
    [] extension = extensionSupportedPoints ->
         IF length < 1 THEN [ok |-> FALSE, m |-> m]
         ELSE LET lVal == At(data, 0)
              IN IF length # lVal + 1 THEN [ok |-> FALSE, m |-> m]
                 ELSE [ok |-> TRUE,
                       m |-> [m EXCEPT !.SupportedPoints = Sub(data, 1, 1 + lVal)]]
    [] extension = extensionSessionTicket ->
         [ok |-> TRUE,
          m |-> [m EXCEPT !.TicketSupported = TRUE,
                          !.SessionTicket = Sub(data, 0, length)]]
    [] OTHER -> [ok |-> TRUE, m |-> m]

RECURSIVE unmarshalExtensions(_, _)
\* the loop over the extensions left after its first pass
unmarshalNextExtensionStop(r, rest) == r

\* the loop over the extensions after one extension, r being what the switch
\* gave and rest the data after the extension
unmarshalNextExtension(r, rest) ==
  IF ~r.ok THEN r ELSE unmarshalExtensions(rest, r.m)

\* for len(data) != 0 { ... } over the extensions
unmarshalExtensions(data, m) ==
  IF Len(data) = 0 THEN [ok |-> TRUE, m |-> m]
  ELSE IF Len(data) < 4 THEN [ok |-> FALSE, m |-> m]
  ELSE
    LET extension == U16(data, 0)
        length == U16(data, 2)
    IN IF Len(data) - 4 < length THEN [ok |-> FALSE, m |-> m]
       ELSE unmarshalNextExtension(
              unmarshalExtension(extension, length, From(data, 4), m),
              From(data, 4 + length))

\* unmarshal without the check of the length of the extensions
unmarshalExtensionBlockNoLength(m, data) ==
  IF Len(data) = 0 THEN [ok |-> TRUE, m |-> m]
  ELSE IF Len(data) < 2 THEN [ok |-> FALSE, m |-> m]
  ELSE unmarshalExtensions(From(data, 2), m)

\* unmarshal from the extensions on: data is what follows the compression
\* methods
unmarshalExtensionBlock(m, data) ==
  IF Len(data) = 0 THEN [ok |-> TRUE, m |-> m]
  ELSE IF Len(data) < 2 THEN [ok |-> FALSE, m |-> m]
  ELSE IF U16(data, 0) # Len(data) - 2 THEN [ok |-> FALSE, m |-> m]
  ELSE unmarshalExtensions(From(data, 2), m)

\* unmarshal from the compression methods on: data is what follows the
\* cipher suites
unmarshalCompressionMethods(m, data) ==
  IF Len(data) < 1 THEN [ok |-> FALSE, m |-> m]
  ELSE
    LET compressionMethodsLen == At(data, 0)
    IN IF Len(data) < 1 + compressionMethodsLen THEN [ok |-> FALSE, m |-> m]
       ELSE unmarshalExtensionBlock(
              [m EXCEPT !.CompressionMethods = Sub(data, 1, 1 + compressionMethodsLen)],
              From(data, 1 + compressionMethodsLen))

\* unmarshal without the check that the length of the cipher suites is even
unmarshalCipherSuitesNoParity(m, data) ==
  IF Len(data) < 2 THEN [ok |-> FALSE, m |-> m]
  ELSE
    LET cipherSuiteLen == U16(data, 0)
    IN IF Len(data) < 2 + cipherSuiteLen
       THEN [ok |-> FALSE, m |-> m]
       ELSE unmarshalCompressionMethods(
              [m EXCEPT !.CipherSuites = u16List(From(data, 2), cipherSuiteLen \div 2)],
              From(data, 2 + cipherSuiteLen))

\* unmarshal from the cipher suites on: data is what follows the session id
unmarshalCipherSuites(m, data) ==
  IF Len(data) < 2 THEN [ok |-> FALSE, m |-> m]
  ELSE
    LET cipherSuiteLen == U16(data, 0)
    IN IF cipherSuiteLen % 2 = 1 \/ Len(data) < 2 + cipherSuiteLen
       THEN [ok |-> FALSE, m |-> m]
       ELSE unmarshalCompressionMethods(
              [m EXCEPT !.CipherSuites = u16List(From(data, 2), cipherSuiteLen \div 2)],
              From(data, 2 + cipherSuiteLen))

\* unmarshal without the limit on the length of the session id
unmarshalNoSessionIDLimit(data) ==
  IF Len(data) < minHelloLen THEN [ok |-> FALSE, m |-> newClientHelloMsg]
  ELSE
    LET sessionIDLen == At(data, 38)
    IN IF Len(data) < 39 + sessionIDLen
       THEN [ok |-> FALSE, m |-> newClientHelloMsg]
       ELSE unmarshalCipherSuites(
              [newClientHelloMsg EXCEPT !.Raw = data, !.Versions = U16(data, 4),
                                        !.Random = Sub(data, 6, 38),
                                        !.SessionID = Sub(data, 39, 39 + sessionIDLen)],
              From(data, 39 + sessionIDLen))

\* (*ClientHelloMsg).unmarshal: [ok, m]
unmarshal(data) ==
  IF Len(data) < minHelloLen THEN [ok |-> FALSE, m |-> newClientHelloMsg]
  ELSE
    LET sessionIDLen == At(data, 38)
    IN IF sessionIDLen > maxSessionIDLen \/ Len(data) < 39 + sessionIDLen
       THEN [ok |-> FALSE, m |-> newClientHelloMsg]
       ELSE unmarshalCipherSuites(
              [newClientHelloMsg EXCEPT !.Raw = data, !.Versions = U16(data, 4),
                                        !.Random = Sub(data, 6, 38),
                                        !.SessionID = Sub(data, 39, 39 + sessionIDLen)],
              From(data, 39 + sessionIDLen))

\* ReadClientHello with the handshake message whole: its type, and unmarshal
readClientHelloMessage(data, u) ==
  IF At(data, 0) # typeClientHello THEN [err |-> ErrNotTLS, msg |-> newClientHelloMsg]
  ELSE IF ~u.ok THEN [err |-> ErrNotTLS, msg |-> newClientHelloMsg]
  ELSE [err |-> ErrNil, msg |-> u.m]

\* ReadClientHello after the records that hold the 4+n bytes of the message
readClientHelloRecords(s2, n) ==
  IF s2.err # ErrNil THEN [err |-> s2.err, msg |-> newClientHelloMsg]
  ELSE readClientHelloMessage(Sub(s2.hand, 0, 4 + n), unmarshal(Sub(s2.hand, 0, 4 + n)))

\* ReadClientHello after the first record
readClientHelloFirst(s1) ==
  IF s1.err # ErrNil THEN [err |-> s1.err, msg |-> newClientHelloMsg]
  ELSE IF Len(s1.hand) < 4 THEN [err |-> ErrNotTLS, msg |-> newClientHelloMsg]
  ELSE readClientHelloRecords(readRecords(s1, U24(s1.hand, 1)), U24(s1.hand, 1))

\* ReadClientHello over bytes.NewReader(input): [err, msg]
ReadClientHello(input) == readClientHelloFirst(readRecord(readerInit(input)))

\* bytes.Index(s, sep): the index of the first instance of sep in s, -1 if
\* there is none, 0 for an empty sep
bytesIndex(s, sep) ==
  IF Len(sep) = 0 THEN 0
  ELSE LET at == {i \in 0..(Len(s) - Len(sep)) : Sub(s, i, i + Len(sep)) = sep}
       IN IF at = {} THEN -1 ELSE MinOf(at)

\* ------------------------------------------------------------------------
\* The buffers callers hand to Write
\* ------------------------------------------------------------------------

u16Bytes(n) == <<n \div 256, n % 256>>
u24Bytes(n) == <<n \div 65536, (n \div 256) % 256, n % 256>>

\* an extension: number, length, body
extensionBytes(number, body) == u16Bytes(number) \o u16Bytes(Len(body)) \o body

\* a server_name extension with the one entry (nameType, name)
serverNameExtension(nameType, name) ==
  extensionBytes(extensionServerName,
                 u16Bytes(3 + Len(name)) \o <<nameType>> \o u16Bytes(Len(name)) \o name)

\* a ClientHello handshake message: TLS 1.2, the random, an empty session id,
\* one cipher suite, the null compression, and the extensions when there are any
helloMessage(random, exts) ==
  LET body == <<3, 3>> \o random \o <<0>> \o <<0, 2, 19, 1>> \o <<1, 0>>
              \o (IF exts = <<>> THEN <<>> ELSE u16Bytes(Len(exts)) \o exts)
  IN <<typeClientHello>> \o u24Bytes(Len(body)) \o body

\* a handshake record of TLS 1.0 around payload
recordBytes(payload) ==
  <<recordTypeHandshake, 3, 1>> \o u16Bytes(Len(payload)) \o payload

\* the random of the ClientHellos: 32 bytes
helloRandom == [i \in 1..32 |-> 7]

\* the hostname "ab"
hostAB == <<97, 98>>

\* a ClientHello whose last extension is server_name "ab"
HelloSNI == recordBytes(helloMessage(helloRandom, serverNameExtension(0, hostAB)))

\* a ClientHello with server_name "ab" and an empty session_ticket after it
HelloSNITicket ==
  recordBytes(helloMessage(helloRandom,
    serverNameExtension(0, hostAB) \o extensionBytes(extensionSessionTicket, <<>>)))

\* a ClientHello without extensions, so without a server name
HelloNoSNI == recordBytes(helloMessage(helloRandom, <<>>))

\* "hello world"
HelloWorld == <<104, 101, 108, 108, 111, 32, 119, 111, 114, 108, 100>>

\* fewer bytes than a record header
ShortBuffer == <<22, 3, 1>>

\* a record cut off before its end
TruncatedHello == Sub(HelloSNI, 0, 40)

Inputs == {HelloSNI, HelloSNITicket, HelloNoSNI, HelloWorld, ShortBuffer, TruncatedHello}

\* ------------------------------------------------------------------------
\* The byte streams ReadClientHello is followed on.  A case is the stream b
\* with what it was built from: the hostname of its server_name extension
\* (host) and the offset the hostname was put at (at, -1 without one), the
\* declared lengths of the session id (sid), of the cipher suites (cs) and of
\* the extensions (ext, -1 without the field), the bytes that follow the
\* cipher suites' length (csRest) and the compression methods (tailLen), and
\* for a message cut into two records after k bytes the one-record stream of
\* the same message (whole).
\* ------------------------------------------------------------------------

\* a ClientHello handshake message with the lengths of the session id and of
\* the cipher suites as declared, and tail after the null compression
rawHello(random, sidDecl, sid, csDecl, cs, tail) ==
  <<typeClientHello>>
    \o u24Bytes(2 + Len(random) + 1 + Len(sid) + 2 + Len(cs) + 2 + Len(tail))
    \o <<3, 3>> \o random \o <<sidDecl>> \o sid \o u16Bytes(csDecl) \o cs
    \o <<1, 0>> \o tail

\* the extensions block: its length and the extensions
extensionBlock(exts) == u16Bytes(Len(exts)) \o exts

\* the offset of the hostname of a server_name extension that follows the
\* extensions before, in a one-record ClientHello
hostOffset(random, sid, cs, before) ==
  recordHeaderLen + 4 + 2 + Len(random) + 1 + Len(sid) + 2 + Len(cs) + 2
    + 2 + Len(before) + 4 + 2 + 3

\* the case of a stream that is no ClientHello message
streamCase(kind, b) ==
  [kind |-> kind, b |-> b, whole |-> b, k |-> 0, host |-> <<>>, at |-> -1,
   sid |-> 0, cs |-> 0, csRest |-> 0, tailLen |-> 0, ext |-> -1]

\* the case of a one-record ClientHello built from its parts
helloCase(kind, random, sidDecl, sid, csDecl, cs, tail, host, at) ==
  [kind |-> kind,
   b |-> recordBytes(rawHello(random, sidDecl, sid, csDecl, cs, tail)),
   whole |-> recordBytes(rawHello(random, sidDecl, sid, csDecl, cs, tail)),
   k |-> 0, host |-> host, at |-> at, sid |-> sidDecl, cs |-> csDecl,
   csRest |-> Len(cs) + 2 + Len(tail), tailLen |-> Len(tail),
   ext |-> IF Len(tail) >= 2 THEN U16(tail, 0) ELSE -1]

\* a well-formed ClientHello with server_name host between the extensions
\* before and after
sniCase(kind, random, sid, cs, before, host, after) ==
  helloCase(kind, random, Len(sid), sid, Len(cs), cs,
            extensionBlock(before \o serverNameExtension(0, host) \o after),
            host, hostOffset(random, sid, cs, before))

\* the case c with its handshake message cut into two records after k bytes
splitCase(c, k) ==
  [c EXCEPT !.kind = "split", !.k = k, !.at = -1,
            !.b = recordBytes(Sub(From(c.whole, recordHeaderLen), 0, k))
                    \o recordBytes(From(From(c.whole, recordHeaderLen), k))]

\* extensions of a ClientHello other than server_name: one the decoder does
\* not know, supported_curves, supported_points with status_request,
\* session_ticket, next_protocol_negotiation
otherExtensions ==
  { extensionBytes(65281, <<0>>),
    extensionBytes(extensionSupportedCurves, <<0, 4, 0, 23, 0, 24>>),
    extensionBytes(extensionSupportedPoints, <<1, 0>>)
      \o extensionBytes(extensionStatusRequest, <<statusTypeOCSP, 0, 0, 0, 0>>),
    extensionBytes(extensionSessionTicket, <<9, 9, 9>>),
    extensionBytes(extensionNextProtoNeg, <<>>) }

\* the one cipher suite of the ClientHellos
oneSuite == <<19, 1>>

\* the hostname "example.com"
hostExample == <<101, 120, 97, 109, 112, 108, 101, 46, 99, 111, 109>>

\* well-formed ClientHellos with server_name "ab" or "example.com" alone, and
\* with other extensions before it, after it, or both
sniCases ==
  { sniCase("sni", helloRandom, <<>>, oneSuite, before, host, after) :
      before \in otherExtensions \cup {<<>>}, host \in {hostAB, hostExample},
      after \in otherExtensions \cup {<<>>} }

\* a server_name extension whose list has an entry of another name type
\* before the hostname entry
serverNameAfterOther(name) ==
  extensionBytes(extensionServerName,
                 u16Bytes(4 + 3 + Len(name)) \o <<1, 0, 1, 120>>
                   \o <<0>> \o u16Bytes(Len(name)) \o name)

\* a well-formed ClientHello whose hostname entry is the second of the list
secondNameCase ==
  helloCase("sni", helloRandom, 0, <<>>, 2, oneSuite,
            extensionBlock(serverNameAfterOther(hostAB)), hostAB,
            hostOffset(helloRandom, <<>>, oneSuite, <<>>) + 4)

\* an entry of a server_name list: name type, length, name
nameEntry(nameType, name) == <<nameType>> \o u16Bytes(Len(name)) \o name

\* a server_name extension whose list is the entries before, the hostname
\* entry of name, and the entries after
serverNameList(entriesBefore, name, entriesAfter) ==
  extensionBytes(extensionServerName,
    u16Bytes(Len(entriesBefore) + 3 + Len(name) + Len(entriesAfter))
      \o entriesBefore \o nameEntry(0, name) \o entriesAfter)

\* entries a server_name list can hold besides its first hostname entry: of
\* another name type, of the hostname type with another name, of both
otherEntries ==
  { <<>>,
    nameEntry(1, <<120>>),
    nameEntry(0, <<122, 122>>),
    nameEntry(7, <<>>) \o nameEntry(1, <<120, 121>>),
    nameEntry(2, <<120>>) \o nameEntry(0, <<122>>) }

\* the entries of otherEntries that have no hostname entry among them
entriesWithoutHost ==
  { <<>>, nameEntry(1, <<120>>), nameEntry(7, <<>>) \o nameEntry(1, <<120, 121>>) }

\* well-formed ClientHellos whose server_name list has entries of other name
\* types before the first hostname entry "ab" and any entries after it; the
\* server_name extension is the last one or has session_ticket after it
nameListCases ==
  { helloCase("names", helloRandom, 0, <<>>, 2, oneSuite,
              extensionBlock(serverNameList(eb, hostAB, ea) \o after), hostAB,
              hostOffset(helloRandom, <<>>, oneSuite, <<>>) + Len(eb)) :
      eb \in entriesWithoutHost, ea \in otherEntries,
      after \in {<<>>, extensionBytes(extensionSessionTicket, <<9>>)} }

\* well-formed ClientHellos in which the bytes of the hostname "ab" also stand
\* before the server_name extension: in the random, in the session id, in
\* the cipher suites, in an earlier extension
repeatCases ==
  { sniCase("repeat", [i \in 1..32 |-> IF i = 3 THEN 97 ELSE IF i = 4 THEN 98 ELSE 7],
            <<>>, oneSuite, <<>>, hostAB, <<>>),
    sniCase("repeat", helloRandom, <<5, 97, 98, 5>>, oneSuite, <<>>, hostAB, <<>>),
    sniCase("repeat", helloRandom, <<>>, <<97, 98>>, <<>>, hostAB, <<>>),
    sniCase("repeat", helloRandom, <<>>, oneSuite,
            extensionBytes(65281, <<97, 98>>), hostAB, <<>>) }

\* the ClientHello with server_name and session_ticket, in one record and cut
\* into two records at every place
splitCases ==
  LET c == sniCase("sni", helloRandom, <<>>, oneSuite, <<>>, hostAB,
                   extensionBytes(extensionSessionTicket, <<>>))
  IN {splitCase(c, k) : k \in 1..(Len(c.whole) - recordHeaderLen - 1)}

\* records whose header readRecord rejects: the type 0x80, a type other than
\* handshake, a version of 0x1000 or more; each with the payload it declares,
\* and with nothing after the header
headerCases ==
  { streamCase(h[1], h[2] \o u16Bytes(n) \o payload) :
      h \in { <<"sslv2", <<sslv2Type, 3, 1>> >>,
              <<"type", <<23, 3, 1>> >>,
              <<"type", <<21, 3, 3>> >>,
              <<"version", <<recordTypeHandshake, 16, 0>> >>,
              <<"version", <<recordTypeHandshake, 255, 255>> >> },
      n \in {0, 2, 65535},
      payload \in {<<>>, <<1, 0>>} }

\* streams that are handshake records without a ClientHello in them: fewer
\* than 4 bytes of handshake, a ServerHello, a ClientHello too short to decode
messageCases ==
  { streamCase("short", recordBytes(<<typeClientHello, 0, 0>>)),
    streamCase("short", recordBytes(<<typeClientHello>>)),
    streamCase("other", recordBytes(<<2>> \o From(From(HelloNoSNI, recordHeaderLen), 1))),
    streamCase("decode", recordBytes(<<typeClientHello, 0, 0, 2, 3, 3>>)) }

\* streams that end before the record does, and the stream of no record
truncatedCases ==
  { streamCase("truncated", ShortBuffer),
    streamCase("truncated", TruncatedHello),
    streamCase("truncated", Sub(HelloSNI, 0, recordHeaderLen)),
    streamCase("truncated", <<>>),
    streamCase("type", HelloWorld) }

\* a session id of n bytes
sessionIDOf(n) == [i \in 1..n |-> 5]

\* ClientHellos with session ids of 0, 1, 31, 32, 33, 34 and 255 bytes, the
\* bytes all there, and one that declares 32 and has none
sessionIDCases ==
  { helloCase("sid", helloRandom, n, sessionIDOf(n), 2, oneSuite,
              extensionBlock(serverNameExtension(0, hostAB)), hostAB,
              hostOffset(helloRandom, sessionIDOf(n), oneSuite, <<>>)) :
      n \in {0, 1, 31, 32, 33, 34, 255} }
  \cup { helloCase("sid", helloRandom, 33, <<>>, 2, oneSuite, <<>>, <<>>, -1) }

\* ClientHellos whose cipher suites' length is declared as decl over the
\* bytes cs: even and there, odd, and more than the bytes that follow
cipherSuiteCases ==
  { helloCase("cs", helloRandom, 0, <<>>, d[1], d[2],
              extensionBlock(serverNameExtension(0, hostAB)), hostAB,
              hostOffset(helloRandom, <<>>, d[2], <<>>)) :
      d \in { <<0, <<>> >>, <<2, oneSuite>>, <<4, <<19, 1, 19, 2>> >>,
              <<6, <<19, 1, 19, 2, 192, 43>> >>,
              <<1, <<19>> >>, <<3, <<19, 1, 19>> >>, <<5, <<19, 1, 19, 2, 19>> >>,
              <<200, oneSuite>>, <<65534, oneSuite>>, <<18, oneSuite>> } }

\* ClientHellos that end after the compression methods, and ones whose
\* extensions block declares the length of its extensions, more, or less, or
\* is one byte only
extensionBlockCases ==
  { helloCase("ext", helloRandom, 0, <<>>, 2, oneSuite, tail, <<>>, -1) :
      tail \in { <<>>, <<0>>, <<0, 0>>, <<0, 1>>,
                 u16Bytes(9) \o extensionBytes(extensionSessionTicket, <<9, 9, 9>>),
                 u16Bytes(7) \o extensionBytes(extensionSessionTicket, <<9, 9, 9>>),
                 u16Bytes(6) \o extensionBytes(extensionSessionTicket, <<9, 9, 9>>),
                 u16Bytes(8) \o extensionBytes(extensionSessionTicket, <<9, 9, 9>>),
                 u16Bytes(4) \o extensionBytes(extensionSessionTicket, <<9, 9, 9>>) } }

\* the case of a ClientHello with the extensions before, added and after,
\* where added is an extension of a type the decoder does not know; whole is
\* the same ClientHello without it
addedCase(before, added, after) ==
  [ helloCase("added", helloRandom, 0, <<>>, 2, oneSuite,
              extensionBlock(before \o added \o after), <<>>, -1)
    EXCEPT !.whole = recordBytes(rawHello(helloRandom, 0, <<>>, 2, oneSuite,
                                          extensionBlock(before \o after))) ]

\* extensions of types the decoder does not know, their bodies as long as
\* declared: empty, short, and of 260 bytes
unknownExtensions ==
  { extensionBytes(1, <<>>),
    extensionBytes(65281, <<1, 2, 3>>),
    extensionBytes(1, [i \in 1..260 |-> 101]) }

\* a server_name extension whose one entry is of the name type 1, and two
\* extensions of unknown types after it
otherNameThenUnknown ==
  << extensionBytes(extensionServerName, u16Bytes(4) \o nameEntry(1, <<120>>)),
     extensionBytes(256, <<0, 0>>) \o extensionBytes(512, <<0, 0>>) >>

\* ClientHellos that decode, with an unknown extension added before, between
\* or after their extensions
addedCases ==
  { addedCase(x[1], added, x[2]) :
      added \in unknownExtensions,
      x \in { << <<>>, <<>> >>,
              << <<>>, serverNameExtension(0, hostAB) >>,
              << serverNameExtension(0, hostAB), <<>> >>,
              << serverNameExtension(0, hostAB),
                 extensionBytes(extensionSupportedCurves, <<0, 2, 0, 23>>) >>,
              << extensionBytes(extensionSessionTicket, <<9>>),
                 extensionBytes(extensionStatusRequest, <<statusTypeOCSP, 0, 0, 0, 0>>) >>,
              otherNameThenUnknown,
              << otherNameThenUnknown[1] \o otherNameThenUnknown[2], <<>> >> } }

\* the case c with its handshake message cut into three records after j and
\* after k bytes, and the bytes rest after the last record
recordsCase(c, j, k, rest) ==
  [c EXCEPT !.kind = "records", !.k = k, !.at = -1,
            !.b = recordBytes(Sub(From(c.whole, recordHeaderLen), 0, j))
                    \o recordBytes(Sub(From(c.whole, recordHeaderLen), j, k))
                    \o recordBytes(From(From(c.whole, recordHeaderLen), k))
                    \o rest]

\* a ClientHello longer than the 1024 bytes a new block holds: server_name and
\* an extension of 1100 bytes
longHello ==
  sniCase("sni", helloRandom, <<>>, oneSuite, <<>>, hostAB,
          extensionBytes(65281, [i \in 1..1100 |-> 102]))

\* ClientHellos in three records, the first of them of one byte, of 3 bytes
\* (less than the 4 of the message header) or more, with nothing, with a
\* record or with part of a record after them; and the long ClientHello in
\* three records that end before, at and after the 1024th byte of the stream
recordsCases ==
  { recordsCase(sniCase("sni", helloRandom, <<>>, oneSuite, <<>>, hostAB,
                        extensionBytes(extensionSessionTicket, <<>>)),
                x[1], x[2], rest) :
      x \in { <<1, 2>>, <<3, 4>>, <<3, 30>>, <<4, 58>>, <<40, 60>>, <<57, 58>> },
      rest \in { <<>>, recordBytes(<<1, 0, 0, 0>>), <<recordTypeHandshake, 3>> } }
    \cup { recordsCase(longHello, x[1], x[2], <<>>) :
             x \in { <<500, 900>>, <<500, 1100>>, <<1009, 1014>>, <<1014, 1100>>,
                     <<1100, 1150>> } }

\* a handshake message that is no ClientHello: the ClientHello without server
\* name with the type 2 for its first byte
otherMessage == <<2>> \o From(From(HelloNoSNI, recordHeaderLen), 1)

\* that message in two records, cut after its header and later, and with its
\* second record cut short or missing
otherMessageCases ==
  { streamCase("other", recordBytes(Sub(otherMessage, 0, k))
                          \o recordBytes(From(otherMessage, k))) : k \in {4, 10, 40} }
    \cup { streamCase("other", recordBytes(Sub(otherMessage, 0, 10)) \o rest) :
             rest \in { <<>>, <<recordTypeHandshake, 3, 1>>,
                        Sub(recordBytes(From(otherMessage, 10)), 0, 20) } }

\* the case of a ClientHello whose first extension is server_name with the
\* body given, the extensions after it as given
bodyCase(body, after) ==
  helloCase("body", helloRandom, 0, <<>>, 2, oneSuite,
            extensionBlock(extensionBytes(extensionServerName, body) \o after), <<>>, -1)

\* server_name bodies and what follows them: a list of one hostname entry; a
\* list of one entry of the name type 1, with nothing after the extension and
\* with extensions of unknown types after it; and an entry that declares a
\* name of 4 bytes where the body holds 2
bodyCases ==
  { bodyCase(u16Bytes(5) \o nameEntry(0, hostAB), <<>>),
    bodyCase(u16Bytes(5) \o nameEntry(0, hostAB), extensionBytes(6, <<101, 118, 105, 108>>)),
    bodyCase(u16Bytes(4) \o nameEntry(1, <<120>>), <<>>),
    bodyCase(u16Bytes(4) \o nameEntry(1, <<120>>),
             extensionBytes(256, <<>>) \o extensionBytes(6, <<101, 118, 105, 108>>)),
    bodyCase(u16Bytes(5) \o <<0, 0, 4>> \o hostAB, <<>>),
    bodyCase(u16Bytes(5) \o <<0, 0, 4>> \o hostAB, extensionBytes(25444, <<>>)) }

\* m handshake records with a declared payload length of 0
zeroRecords(m) == Concat([i \in 1..m |-> recordBytes(<<>>)])

\* the case c with the first 10 bytes of its handshake message in a record, m
\* zero-length records, and the rest of the message in a record
zeroCase(c, m) ==
  [c EXCEPT !.kind = "zero", !.at = -1,
            !.b = recordBytes(Sub(From(c.whole, recordHeaderLen), 0, 10))
                    \o zeroRecords(m)
                    \o recordBytes(From(From(c.whole, recordHeaderLen), 10))]

\* streams with zero-length records and with handshake lengths beyond the
\* data: the empty stream; zero-length records alone; the first 10 bytes of a
\* ClientHello in a record, zero-length records, and then the rest in a
\* record, nothing, or half a record header; a message header that declares
\* 0xFFFFFF bytes, followed by 6 bytes, by zero-length records or by nothing
zeroCases ==
  { streamCase("zero", b) :
      b \in { <<>>, zeroRecords(1), zeroRecords(3) }
            \cup { recordBytes(Sub(From(HelloSNI, recordHeaderLen), 0, 10))
                     \o zeroRecords(m) \o rest :
                       m \in {1, 3}, rest \in { <<>>, <<recordTypeHandshake, 3>> } }
            \cup { recordBytes(<<typeClientHello, 255, 255, 255>> \o rest1) \o rest2 :
                       rest1 \in { <<>>, <<3, 3, 0, 0, 0, 0>> },
                       rest2 \in { <<>>, zeroRecords(2),
                                   recordBytes(<<1, 2, 3>>) \o zeroRecords(1) } } }
    \cup { zeroCase(sniCase("sni", helloRandom, <<>>, oneSuite, <<>>, hostAB, <<>>), m) :
             m \in {1, 3} }

\* the streams ReadClientHello is followed on
helloCases ==
  sniCases \cup {secondNameCase} \cup repeatCases \cup splitCases
    \cup headerCases \cup messageCases \cup truncatedCases \cup sessionIDCases
    \cup cipherSuiteCases \cup extensionBlockCases \cup nameListCases
    \cup addedCases \cup recordsCases \cup otherMessageCases \cup bodyCases
    \cup zeroCases

\* ------------------------------------------------------------------------
\* bepass/tlsfrag: the fragmentation policy and the pure steps
\* ------------------------------------------------------------------------

\* the [2]int ranges New is given
Policies ==
  { [BSL |-> <<2000, 2000>>, SL |-> <<1, 2>>, ASL |-> <<3, 4>>, Delay |-> <<1, 3>>],
    [BSL |-> <<30, 32>>, SL |-> <<1, 3>>, ASL |-> <<40, 42>>, Delay |-> <<0, 0>>],
    [BSL |-> <<40, 40>>, SL |-> <<0, 2>>, ASL |-> <<0, 0>>, Delay |-> <<2, 2>>] }

\* rand.Intn(n): a number of the half-open interval [0, n)
randIntn(n) == 0..(n - 1)

\* the length or the delay drawn from the range rng: rand.Intn(max-min)+min
\* when max-min > 0, else min
drawRange(rng) ==
  IF At(rng, 1) - At(rng, 0) > 0
  THEN {r + At(rng, 0) : r \in randIntn(At(rng, 1) - At(rng, 0))}
  ELSE {At(rng, 0)}

\* writeFragments that takes BSL for every zone
zoneRangeAlwaysBSL(p, index) == p.BSL

\* the range of the zone index: BSL before the SNI, SL for the SNI, ASL after
zoneRange(p, index) ==
  IF index = 0 THEN p.BSL ELSE IF index = 1 THEN p.SL ELSE p.ASL

\* if fragmentLength > len(b)-position { fragmentLength = len(b) - position }
clampLength(fragmentLength, remaining) ==
  IF fragmentLength > remaining THEN remaining ELSE fragmentLength

\* the fragment taken from the start of b at every pass
fragmentOfFromStart(b, position, fragmentLength) == Sub(b, 0, fragmentLength)

\* b[position : position+fragmentLength]
fragmentOf(b, position, fragmentLength) == Sub(b, position, position + fragmentLength)

\* chunks whose last one starts at the SNI
splitChunksAfterFromIndex(b, helloPacketSni, index) ==
  << Sub(b, 0, index),
     Sub(b, index, index + Len(helloPacketSni)),
     From(b, index) >>

\* chunks[0], chunks[1], chunks[2]: before the SNI, the SNI, after the SNI
splitChunks(b, helloPacketSni, index) ==
  << Sub(b, 0, index),
     Sub(b, index, index + Len(helloPacketSni)),
     From(b, index + Len(helloPacketSni)) >>

\* fragmentAndWriteFirstPacket after bytes.Index: b as it is when the server
\* name is not found, else the three chunks
planAt(b, helloPacketSni, index) ==
  IF index = -1 THEN [frag |-> FALSE, chunks |-> <<>>]
  ELSE [frag |-> TRUE, chunks |-> splitChunks(b, helloPacketSni, index)]

\* fragmentAndWriteFirstPacket without the return on the error of
\* ReadClientHello: the search goes on with the server name of an empty message
planForNoErrCheck(b, hello) ==
  planAt(b, hello.msg.ServerName, bytesIndex(b, hello.msg.ServerName))

\* fragmentAndWriteFirstPacket after ReadClientHello returned hello: b as it
\* is on an error, else the search for the server name in b
planFor(b, hello) ==
  IF hello.err # ErrNil THEN [frag |-> FALSE, chunks |-> <<>>]
  ELSE planAt(b, hello.msg.ServerName, bytesIndex(b, hello.msg.ServerName))

\* what fragmentAndWriteFirstPacket decides before it writes: to write b
\* as it is (frag = FALSE) or to write the three chunks in fragments
firstPacketPlan(b) == planFor(b, ReadClientHello(b))

\* fragmentAndWriteFirstPacket's decision for each buffer a caller hands to
\* Write, worked out once
planOf == [b \in Inputs |-> firstPacketPlan(b)]

\* ------------------------------------------------------------------------
\* The transport (net.Conn) under the adapter
\* ------------------------------------------------------------------------

ErrClosed == "use of closed network connection"
ErrPipe == "broken pipe"

\* what conn.Write(data) can return: on a closed connection the error of a
\* closed connection; else all of data accepted, or an error with nothing
\* accepted, or an error after one byte of a longer write
connWriteResults(closed, data) ==
  IF closed THEN {[n |-> 0, err |-> ErrClosed]}
  ELSE {[n |-> Len(data), err |-> ErrNil], [n |-> 0, err |-> ErrPipe]}
       \cup (IF Len(data) >= 2 THEN {[n |-> 1, err |-> ErrPipe]} ELSE {})

\* what conn.Write(data) of the transport c can return: the results above
\* and, for a transport that reports short writes without an error (c.short
\* of them are followed), one byte less than data accepted and no error
connWrite(c, data) ==
  connWriteResults(c.closed, data)
    \cup (IF ~c.closed /\ c.short > 0 /\ Len(data) >= 2
          THEN {[n |-> Len(data) - 1, err |-> ErrNil]} ELSE {})

\* the transport c after its Write(data) returned out
connAfterWrite(c, data, out) ==
  IF out.err = ErrNil /\ out.n < Len(data) THEN [c EXCEPT !.short = c.short - 1] ELSE c

\* what conn.Read(p) can return: a count, an error, or both
connReadResults(closed) ==
  IF closed THEN {[n |-> 0, err |-> ErrClosed]}
  ELSE {[n |-> 2, err |-> ErrNil], [n |-> 0, err |-> ErrEOF], [n |-> 1, err |-> ErrEOF]}

\* the deadlines callers set: the zero time (none) or a time
Deadlines == {"zero", "t1"}

\* ------------------------------------------------------------------------
\* bepass/tlsfrag: the Adapter
\* ------------------------------------------------------------------------

\* the goroutines that call Write and those that call Read
Writers == {"w1", "w2"}
Readers == {"r1"}

\* the Write calls and the Read calls of a run
MaxCalls == 2
MaxReads == 1
\* the fragments without a byte a Write call is followed through
MaxEmptyWrites == 2

\* no goroutine holds the mutex
NoOne == "none"

VARIABLES
  isFirstWrite,  \* Adapter.isFirstWrite
  writeMutex,    \* Adapter.writeMutex: its holder
  readMutex,     \* Adapter.readMutex: its holder
  policy,        \* Adapter.BSL, SL, ASL, Delay
  conn,          \* Adapter.conn: closed, and its deadlines
  wr,            \* each writer's place in Write and the locals of its call
  rdr,           \* each reader's place in Read and the locals of its call
  writes,        \* the number of Write calls that have taken the write lock
  reads,         \* the number of Read calls made
  connLog,       \* the calls of conn.Write of the Write calls in progress, in
                 \* order, with what they returned
  rch,           \* a call of ReadClientHello followed step by step: its place,
                 \* what the readRecord closure captures, and what it returns
  blk,           \* a block and its source under a sequence of block operations
  run            \* a run of the command: its flags, its lookups and its targets

vars == <<isFirstWrite, writeMutex, readMutex, policy, conn, wr, rdr, writes,
          reads, connLog, rch, blk, run>>

\* the variables of the Adapter and of its callers
adapterVars == <<isFirstWrite, writeMutex, readMutex, policy, conn, wr, rdr,
                 writes, reads, connLog>>

\* a writer outside Write
idleWriter ==
  [pc |-> "idle", b |-> <<>>, call |-> 0, first |-> FALSE, frag |-> FALSE,
   chunks |-> <<>>, i |-> 0, position |-> 0, nw |-> 0, total |-> 0, delay |-> 0,
   n |-> 0, err |-> ErrNil]

\* a reader outside Read
idleReader == [pc |-> "idle", tn |-> 0, terr |-> ErrNil, n |-> 0, err |-> ErrNil]

\* an open connection without deadlines; short: the times its Write reports
\* fewer bytes than offered without an error
openConn(short) ==
  [closed |-> FALSE, readDeadline |-> "zero", writeDeadline |-> "zero", short |-> short]

\* New: the adapter around the connection c, isFirstWrite set, the ranges as
\* given
newAdapterAround(c) ==
  /\ isFirstWrite = TRUE
  /\ writeMutex = NoOne
  /\ readMutex = NoOne
  /\ policy \in Policies
  /\ conn = c
  /\ wr = [w \in Writers |-> idleWriter]
  /\ rdr = [r \in Readers |-> idleReader]
  /\ writes = 0
  /\ reads = 0
  /\ connLog = <<>>

\* New around a connection whose Write accepts all it is offered or reports
\* an error
newAdapter == newAdapterAround(openConn(0))

\* no call of ReadClientHello is followed
rchOff ==
  [pc |-> "off", case |-> streamCase("off", <<>>), st |-> readerInit(<<>>), n |-> 0,
   records |-> 0, err |-> ErrNil, msg |-> newClientHelloMsg,
   plan |-> [frag |-> FALSE, chunks |-> <<>>]]

\* no sequence of block operations is followed
blkOff ==
  [pc |-> "off", b |-> NilBlock, rest |-> NilBlock, rd |-> [script |-> <<>>, log |-> <<>>],
   op |-> "none", n |-> 0, err |-> ErrNil, got |-> <<>>, pre |-> NilBlock,
   preRd |-> [script |-> <<>>, log |-> <<>>], steps |-> 0]

\* no run of the command is followed
runOff ==
  [pc |-> "off", ip |-> "", v4 |-> FALSE, v6 |-> FALSE, port |-> 0, sni |-> "",
   repeat |-> 0, dns |-> [err |-> ErrNil, addrs |-> <<>>],
   to |-> [ResolveIPv4 |-> FALSE, ResolveIPv6 |-> FALSE,
           ManualIP |-> [kind |-> "v4", ip |-> "0.0.0.0"], Port |-> 0, SNI |-> "",
           Repeat |-> 0],
   lookups |-> 0, targets |-> <<>>, i |-> 0, attempts |-> <<>>, table |-> <<>>,
   err |-> ErrNil]

\* the adapter as New returns it; the ClientHello of a first Write is read
\* within the step of Write that takes the write lock
Init ==
  /\ newAdapter
  /\ rch = rchOff
  /\ blk = blkOff
  /\ run = runOff

RECURSIVE nextFragment(_)
\* the loop conditions of fragmentAndWriteFirstPacket (i < 3) and of
\* writeFragments (position < len(b)): the writer's locals where the next
\* fragment is written, or where the call returns nw, nil
nextFragment(s) ==
  IF s.i = 3 THEN [s EXCEPT !.pc = "ret", !.n = s.total, !.err = ErrNil]
  ELSE IF s.position < Len(s.chunks[s.i + 1]) THEN [s EXCEPT !.pc = "frag"]
  ELSE nextFragment([s EXCEPT !.i = s.i + 1, !.total = s.total + s.nw,
                              !.position = 0, !.nw = 0])

\* Write that never clears isFirstWrite
writeEnterKeepFlag(flag, s, c) ==
  IF flag
  THEN LET plan == planOf[s.b]
           s1 == [s EXCEPT !.call = c, !.first = TRUE, !.frag = plan.frag]
       IN [flag |-> flag,
           s |-> IF plan.frag THEN nextFragment([s1 EXCEPT !.chunks = plan.chunks])
                 ELSE [s1 EXCEPT !.pc = "pass"]]
  ELSE [flag |-> flag, s |-> [s EXCEPT !.call = c, !.pc = "pass"]]

\* Write that sends every write through fragmentAndWriteFirstPacket
writeEnterAlwaysFragment(flag, s, c) ==
  LET plan == planOf[s.b]
      s1 == [s EXCEPT !.call = c, !.first = flag, !.frag = plan.frag]
  IN [flag |-> FALSE,
      s |-> IF plan.frag THEN nextFragment([s1 EXCEPT !.chunks = plan.chunks])
            ELSE [s1 EXCEPT !.pc = "pass"]]

\* Write after a.writeMutex.Lock(), as the call number c: the first write
\* clears isFirstWrite and goes through fragmentAndWriteFirstPacket, a later
\* one to conn.Write(b).  [flag, s]: isFirstWrite and the writer's locals
\* afterwards
writeEnter(flag, s, c) ==
  IF flag
  THEN LET plan == planOf[s.b]
           s1 == [s EXCEPT !.call = c, !.first = TRUE, !.frag = plan.frag]
       IN [flag |-> FALSE,
           s |-> IF plan.frag THEN nextFragment([s1 EXCEPT !.chunks = plan.chunks])
                 ELSE [s1 EXCEPT !.pc = "pass"]]
  ELSE [flag |-> flag, s |-> [s EXCEPT !.call = c, !.pc = "pass"]]

\* writeFragments that goes on after an error of conn.Write
afterFragmentWriteIgnoreError(s, fragmentLength, delay, out) ==
  LET s1 == [s EXCEPT !.nw = s.nw + out.n, !.position = s.position + fragmentLength]
  IN IF delay > 0 THEN [s1 EXCEPT !.pc = "sleep", !.delay = delay]
     ELSE nextFragment(s1)

\* writeFragments that does not sleep after the last fragment of the last
\* chunk
afterFragmentWriteNoLastSleep(s, fragmentLength, delay, out) ==
  IF out.err # ErrNil THEN [s EXCEPT !.pc = "ret", !.n = 0, !.err = out.err]
  ELSE IF delay > 0 /\ ~(s.i = 2 /\ s.position + fragmentLength >= Len(s.chunks[3]))
  THEN [s EXCEPT !.nw = s.nw + out.n, !.position = s.position + fragmentLength,
                 !.pc = "sleep", !.delay = delay]
  ELSE nextFragment([s EXCEPT !.nw = s.nw + out.n,
                              !.position = s.position + fragmentLength])

\* writeFragments after conn.Write returned out for a fragment of
\* fragmentLength bytes: return 0, ew on an error, else count, advance and
\* sleep when the delay is positive
afterFragmentWrite(s, fragmentLength, delay, out) ==
  IF out.err # ErrNil THEN [s EXCEPT !.pc = "ret", !.n = 0, !.err = out.err]
  ELSE LET s1 == [s EXCEPT !.nw = s.nw + out.n,
                           !.position = s.position + fragmentLength]
       IN IF delay > 0 THEN [s1 EXCEPT !.pc = "sleep", !.delay = delay]
          ELSE nextFragment(s1)

\* the calls of conn.Write made for the Write call c
logOf(c) == SelectSeq(connLog, LAMBDA e : e.call = c)

\* the fragments without a byte written for the Write call c
emptyWrites(c) == Len(SelectSeq(connLog, LAMBDA e : e.call = c /\ Len(e.data) = 0))

\* Lock() that does not wait for the holder
lockFreeNoWait(holder) == TRUE

\* Lock() of a sync.Mutex returns when no goroutine holds the mutex
lockFree(holder) == holder = NoOne

\* Read that waits for the one mutex of both directions
readLockFreeOneMutex(rm, wm) == lockFree(rm) /\ lockFree(wm)

\* a.readMutex.Lock() of Read returns when no goroutine holds readMutex (rm),
\* whoever holds writeMutex (wm)
readLockFree(rm, wm) == lockFree(rm)

\* a goroutine calls Write(b)
WriteCall(w) ==
  /\ wr[w].pc = "idle"
  /\ writes + Cardinality({v \in Writers : wr[v].pc = "lock"}) < MaxCalls
  /\ \E b \in Inputs : wr' = [wr EXCEPT ![w] = [idleWriter EXCEPT !.pc = "lock", !.b = b]]
  /\ UNCHANGED <<rch, blk, run, isFirstWrite, writeMutex, readMutex, policy, conn, rdr, writes,
                 reads, connLog>>

\* a.writeMutex.Lock() returns, and Write goes as far as its first conn.Write
WriteLock(w) ==
  /\ wr[w].pc = "lock"
  /\ lockFree(writeMutex)
  /\ writeMutex' = w
  /\ writes' = writes + 1
  /\ LET r == writeEnter(isFirstWrite, wr[w], writes + 1)
     IN /\ isFirstWrite' = r.flag
        /\ wr' = [wr EXCEPT ![w] = r.s]
  /\ UNCHANGED <<rch, blk, run, readMutex, policy, conn, rdr, reads, connLog>>

\* return a.conn.Write(b), of the fallback and of a later write
WritePass(w) ==
  /\ wr[w].pc = "pass"
  /\ \E out \in connWrite(conn, wr[w].b) :
       /\ connLog' = Append(connLog, [call |-> wr[w].call, zone |-> -1,
                                      data |-> wr[w].b, n |-> out.n, err |-> out.err])
       /\ conn' = connAfterWrite(conn, wr[w].b, out)
       /\ wr' = [wr EXCEPT ![w] = [@ EXCEPT !.pc = "ret", !.n = out.n, !.err = out.err]]
  /\ UNCHANGED <<rch, blk, run, isFirstWrite, writeMutex, readMutex, policy, rdr, writes, reads>>

\* one pass of the loop of writeFragments, up to time.Sleep
WriteFragment(w) ==
  /\ wr[w].pc = "frag"
  /\ LET s == wr[w]
         chunk == s.chunks[s.i + 1]
     IN \E drawn \in drawRange(zoneRange(policy, s.i)), delay \in drawRange(policy.Delay) :
          LET fragmentLength == clampLength(drawn, Len(chunk) - s.position)
              data == fragmentOf(chunk, s.position, fragmentLength)
          IN /\ fragmentLength = 0 => emptyWrites(s.call) < MaxEmptyWrites
             /\ \E out \in connWrite(conn, data) :
                  /\ connLog' = Append(connLog, [call |-> s.call, zone |-> s.i,
                                                 data |-> data, n |-> out.n,
                                                 err |-> out.err])
                  /\ conn' = connAfterWrite(conn, data, out)
                  /\ wr' = [wr EXCEPT ![w] = afterFragmentWrite(s, fragmentLength, delay, out)]
  /\ UNCHANGED <<rch, blk, run, isFirstWrite, writeMutex, readMutex, policy, rdr, writes, reads>>

\* time.Sleep returns
WriteSleep(w) ==
  /\ wr[w].pc = "sleep"
  /\ wr' = [wr EXCEPT ![w] = nextFragment([@ EXCEPT !.delay = 0])]
  /\ UNCHANGED <<rch, blk, run, isFirstWrite, writeMutex, readMutex, policy, conn, rdr, writes,
                 reads, connLog>>

\* Write returns bytesWritten, err; the deferred Unlock runs.  The log is
\* emptied when no other Write call is in progress.
WriteReturn(w) ==
  /\ wr[w].pc = "ret"
  /\ writeMutex' = NoOne
  /\ connLog' = IF \A v \in Writers \ {w} : wr[v].pc \in {"idle", "lock"}
                THEN <<>> ELSE connLog
  /\ wr' = [wr EXCEPT ![w] = idleWriter]
  /\ UNCHANGED <<rch, blk, run, isFirstWrite, readMutex, policy, conn, rdr, writes, reads>>

\* what Read returns for the bytesRead, err of conn.Read
readResult(out) ==
  IF out.err # ErrNil THEN [n |-> 0, err |-> out.err] ELSE [n |-> out.n, err |-> out.err]

\* a goroutine calls Read(b)
ReadCall(r) ==
  /\ rdr[r].pc = "idle"
  /\ reads < MaxReads
  /\ reads' = reads + 1
  /\ rdr' = [rdr EXCEPT ![r] = [idleReader EXCEPT !.pc = "lock"]]
  /\ UNCHANGED <<rch, blk, run, isFirstWrite, writeMutex, readMutex, policy, conn, wr, writes,
                 connLog>>

\* a.readMutex.Lock() returns
ReadLock(r) ==
  /\ rdr[r].pc = "lock"
  /\ readLockFree(readMutex, writeMutex)
  /\ readMutex' = r
  /\ rdr' = [rdr EXCEPT ![r] = [@ EXCEPT !.pc = "read"]]
  /\ UNCHANGED <<rch, blk, run, isFirstWrite, writeMutex, policy, conn, wr, writes, reads,
                 connLog>>

\* a.conn.Read(b) returns
ReadConn(r) ==
  /\ rdr[r].pc = "read"
  /\ \E out \in connReadResults(conn.closed) :
       rdr' = [rdr EXCEPT ![r] = [pc |-> "ret", tn |-> out.n, terr |-> out.err,
                                  n |-> readResult(out).n, err |-> readResult(out).err]]
  /\ UNCHANGED <<rch, blk, run, isFirstWrite, writeMutex, readMutex, policy, conn, wr, writes,
                 reads, connLog>>

\* Read returns; the deferred Unlock runs
ReadReturn(r) ==
  /\ rdr[r].pc = "ret"
  /\ readMutex' = NoOne
  /\ rdr' = [rdr EXCEPT ![r] = idleReader]
  /\ UNCHANGED <<rch, blk, run, isFirstWrite, writeMutex, policy, conn, wr, writes, reads,
                 connLog>>

\* Close: a.conn.Close()
Close ==
  /\ ~conn.closed
  /\ conn' = [conn EXCEPT !.closed = TRUE]
  /\ UNCHANGED <<rch, blk, run, isFirstWrite, writeMutex, readMutex, policy, wr, rdr, writes,
                 reads, connLog>>

\* SetReadDeadline: a.conn.SetReadDeadline(t), an error on a closed connection
SetReadDeadline(t) ==
  /\ ~conn.closed
  /\ conn.readDeadline # t
  /\ conn' = [conn EXCEPT !.readDeadline = t]
  /\ UNCHANGED <<rch, blk, run, isFirstWrite, writeMutex, readMutex, policy, wr, rdr, writes,
                 reads, connLog>>

\* SetWriteDeadline: a.conn.SetWriteDeadline(t), an error on a closed connection
SetWriteDeadline(t) ==
  /\ ~conn.closed
  /\ conn.writeDeadline # t
  /\ conn' = [conn EXCEPT !.writeDeadline = t]
  /\ UNCHANGED <<rch, blk, run, isFirstWrite, writeMutex, readMutex, policy, wr, rdr, writes,
                 reads, connLog>>

\* SetDeadline: SetReadDeadline(t), and SetWriteDeadline(t) when that gave no
\* error
SetDeadline(t) ==
  /\ ~conn.closed
  /\ conn.readDeadline # t \/ conn.writeDeadline # t
  /\ conn' = [conn EXCEPT !.readDeadline = t, !.writeDeadline = t]
  /\ UNCHANGED <<rch, blk, run, isFirstWrite, writeMutex, readMutex, policy, wr, rdr, writes,
                 reads, connLog>>

Next ==
  \/ \E w \in Writers : WriteCall(w)
  \/ \E w \in Writers : WriteLock(w)
  \/ \E w \in Writers : WritePass(w)
  \/ \E w \in Writers : WriteFragment(w)
  \/ \E w \in Writers : WriteSleep(w)
  \/ \E w \in Writers : WriteReturn(w)
  \/ \E r \in Readers : ReadCall(r)
  \/ \E r \in Readers : ReadLock(r)
  \/ \E r \in Readers : ReadConn(r)
  \/ \E r \in Readers : ReadReturn(r)
  \/ Close
  \/ \E t \in Deadlines : SetReadDeadline(t)
  \/ \E t \in Deadlines : SetWriteDeadline(t)
  \/ \E t \in Deadlines : SetDeadline(t)

Spec == Init /\ [][Next]_vars

\* the short writes without an error of a run
MaxShortWrites == 1

\* the adapter around a connection that reports short writes without an error
ShortInit ==
  /\ newAdapterAround(openConn(MaxShortWrites))
  /\ rch = rchOff
  /\ blk = blkOff
  /\ run = runOff

SpecShort == ShortInit /\ [][Next]_vars

\* ------------------------------------------------------------------------
\* bepass/sni: ReadClientHello, call by call of readRecord
\* ------------------------------------------------------------------------

\* ReadClientHello(bytes.NewReader(c.b)) is called
rchStart(c) == [rchOff EXCEPT !.pc = "first", !.case = c, !.st = readerInit(c.b)]

\* return nil, err: what readRecord left is s
rchFail(h, s, err) == [h EXCEPT !.pc = "done", !.st = s, !.err = err]

\* ReadClientHello that reads on when the first record holds fewer than 4
\* bytes
afterFirstRecordReadOn(h, s1) ==
  IF s1.err # ErrNil THEN rchFail(h, s1, s1.err)
  ELSE [h EXCEPT !.pc = "more", !.st = s1,
                 !.n = IF Len(s1.hand) < 4 THEN 0 ELSE U24(s1.hand, 1)]

\* ReadClientHello after its first readRecord(), which left s1
afterFirstRecord(h, s1) ==
  IF s1.err # ErrNil THEN rchFail(h, s1, s1.err)
  ELSE IF Len(s1.hand) < 4 THEN rchFail(h, s1, ErrNotTLS)
  ELSE [h EXCEPT !.pc = "more", !.st = s1, !.n = U24(s1.hand, 1)]

\* ReadClientHello whose readRecord() in the loop adds the record to hand and
\* leaves the reader and nextBlock where they were
afterMoreRecordKeepInput(h, s2) ==
  IF s2.err # ErrNil THEN rchFail(h, s2, s2.err) ELSE [h EXCEPT !.st.hand = s2.hand]

\* ReadClientHello after a readRecord() of the loop for hand.Len() < 4+n
afterMoreRecord(h, s2) ==
  IF s2.err # ErrNil THEN rchFail(h, s2, s2.err) ELSE [h EXCEPT !.st = s2]

\* ReadClientHello returns what the check of the type and unmarshal gave
afterUnmarshal(h, r) == [h EXCEPT !.pc = "done", !.err = r.err, !.msg = r.msg]

\* the first readRecord() and the checks after it
ReadFirstRecord ==
  /\ rch.pc = "first"
  /\ rch' = [afterFirstRecord(rch, readRecord(rch.st)) EXCEPT !.records = 1]
  /\ UNCHANGED <<adapterVars, blk, run>>

\* a pass of the loop for hand.Len() < 4+n
ReadMoreRecord ==
  /\ rch.pc = "more"
  /\ Len(rch.st.hand) < 4 + rch.n
  /\ rch' = [afterMoreRecord(rch, readRecord(rch.st)) EXCEPT !.records = @ + 1]
  /\ UNCHANGED <<adapterVars, blk, run>>

\* data = hand.Next(4 + n), the check of the handshake type, msg.unmarshal(data)
UnmarshalHello ==
  /\ rch.pc = "more"
  /\ Len(rch.st.hand) >= 4 + rch.n
  /\ rch' = afterUnmarshal(rch,
              readClientHelloMessage(Sub(rch.st.hand, 0, 4 + rch.n),
                                     unmarshal(Sub(rch.st.hand, 0, 4 + rch.n))))
  /\ UNCHANGED <<adapterVars, blk, run>>

\* fragmentAndWriteFirstPacket goes on with what ReadClientHello returned: it
\* looks for the server name in b and cuts b there
SplitAtServerName ==
  /\ rch.pc = "done"
  /\ rch' = [rch EXCEPT !.pc = "split",
                        !.plan = planFor(rch.case.b, [err |-> rch.err, msg |-> rch.msg])]
  /\ UNCHANGED <<adapterVars, blk, run>>

\* a new adapter, and a first Write whose bytes are those of one of the cases
HelloInit ==
  /\ newAdapter
  /\ rch \in {rchStart(c) : c \in helloCases}
  /\ blk = blkOff
  /\ run = runOff

HelloNext ==
  \/ ReadFirstRecord
  \/ ReadMoreRecord
  \/ UnmarshalHello
  \/ SplitAtServerName

SpecHello == HelloInit /\ [][HelloNext]_vars

RECURSIVE loopStates(_, _)
\* the states the loop for hand.Len() < 4+n calls readRecord() in, from st on
loopStates(st, n) ==
  IF st.err # ErrNil \/ Len(st.hand) >= 4 + n THEN {}
  ELSE {st} \cup loopStates(readRecord(st), n)

\* the states ReadClientHello calls readRecord() in after the first, which
\* left s1
statesAfterFirst(s1) ==
  IF s1.err # ErrNil \/ Len(s1.hand) < 4 THEN {} ELSE loopStates(s1, U24(s1.hand, 1))

\* readRecord() on the states ReadClientHello calls it in over the cases
readRecordTable ==
  [st \in UNION { {readerInit(c.b)} \cup statesAfterFirst(readRecord(readerInit(c.b))) :
                    c \in helloCases } |-> readRecord(st)]

\* the handshake messages that ReadClientHello hands to unmarshal: the first
\* 4+n bytes of hand
messagesOf(st) ==
  IF st.err = ErrNil /\ Len(st.hand) >= 4 /\ Len(st.hand) >= 4 + U24(st.hand, 1)
  THEN {Sub(st.hand, 0, 4 + U24(st.hand, 1))} ELSE {}

\* unmarshal on the messages ReadClientHello hands to it over the cases
unmarshalTable ==
  [data \in UNION {messagesOf(readRecordTable[st]) : st \in DOMAIN readRecordTable}
     |-> unmarshal(data)]

\* the step of ReadClientHello and of its caller that comes next, with what
\* readRecord() and unmarshal return taken from their tables
HelloStep ==
  /\ rch.pc \in {"first", "more", "done"}
  /\ rch' =
       IF rch.pc = "first"
       THEN [afterFirstRecord(rch, readRecordTable[rch.st]) EXCEPT !.records = 1]
       ELSE IF rch.pc = "done"
       THEN [rch EXCEPT !.pc = "split",
                        !.plan = planFor(rch.case.b, [err |-> rch.err, msg |-> rch.msg])]
       ELSE IF Len(rch.st.hand) < 4 + rch.n
       THEN [afterMoreRecord(rch, readRecordTable[rch.st]) EXCEPT !.records = @ + 1]
       ELSE afterUnmarshal(rch,
              readClientHelloMessage(Sub(rch.st.hand, 0, 4 + rch.n),
                                     unmarshalTable[Sub(rch.st.hand, 0, 4 + rch.n)]))
  /\ UNCHANGED <<adapterVars, blk, run>>

\* ReadClientHello runs within one call of Write, which goes on until it
\* returns: the step that comes next is taken
SpecHelloLive == HelloInit /\ [][HelloNext]_vars /\ WF_vars(HelloStep)

\* ------------------------------------------------------------------------
\* bepass/sni: a block under sequences of its operations
\* ------------------------------------------------------------------------

\* the operations a block is followed through
MaxBlockOps == 3

\* the sources a block reads from: reads of 3, 2 and 3 bytes, the last with
\* io.EOF; 2 bytes with an error; nothing; a read of no byte and no error
\* before 7 bytes; an error between two reads of bytes; and 1030 bytes, more
\* than a new block holds
Scripts ==
  { << [data |-> <<1, 2, 3>>, err |-> ErrNil], [data |-> <<4, 5>>, err |-> ErrNil],
       [data |-> <<6, 7, 8>>, err |-> ErrEOF] >>,
    << [data |-> <<1, 2>>, err |-> ErrPipe] >>,
    << >>,
    << [data |-> <<>>, err |-> ErrNil], [data |-> <<1, 2, 3, 4, 5, 6, 7>>, err |-> ErrNil] >>,
    << [data |-> <<1, 2, 3>>, err |-> ErrNil], [data |-> <<>>, err |-> ErrClosed],
       [data |-> <<4, 5>>, err |-> ErrNil] >>,
    << [data |-> [i \in 1..1030 |-> 9], err |-> ErrNil] >> }

\* the n of resize, reserve, readFromUntil and splitBlock, and the len(p) of
\* Read
BlockSizes == {0, 2, 5, 8, 1025}
ReadSizes == {0, 2, 1030}
\* the payload lengths of the records readRecord reads
PayloadSizes == {0, 3}

\* a new block and the source it reads from
blkStart(script) ==
  [blkOff EXCEPT !.pc = "on", !.b = newBlock, !.rd = [script |-> script, log |-> <<>>]]

\* the operation op with the argument n starts on the block of h
blkStep(h, op, n) ==
  [h EXCEPT !.op = op, !.n = n, !.pre = h.b, !.preRd = h.rd, !.steps = h.steps + 1,
            !.err = ErrNil, !.got = <<>>]

\* h after b.readFromUntil(rd, n) returned r
blkAfterRead(h, r) == [h EXCEPT !.b = r.b, !.rd = r.rd, !.err = r.err]

\* h after b.Read(p) returned r
blkAfterBlockRead(h, r) ==
  IF r.panic THEN [h EXCEPT !.pc = "panic"] ELSE [h EXCEPT !.b = r.b, !.got = r.bytes]

\* h after splitBlock returned s
blkAfterSplit(h, s) == [h EXCEPT !.b = s.first, !.rest = s.rest]

\* readRecord from b.readFromUntil(rd, recordHeaderLen+n) on: the error, or
\* b, nextBlock = splitBlock(b, recordHeaderLen+n) and b.off = recordHeaderLen
blkAfterRecord(h, n, r) ==
  IF r.err # ErrNil THEN blkAfterRead(h, r)
  ELSE [h EXCEPT !.rd = r.rd,
                 !.b = [splitBlock(r.b, recordHeaderLen + n).first
                          EXCEPT !.off = recordHeaderLen],
                 !.rest = splitBlock(r.b, recordHeaderLen + n).rest]

\* b.resize(n)
BlockResize(n) ==
  /\ blk.pc = "on" /\ blk.steps < MaxBlockOps
  /\ blk' = [blkStep(blk, "resize", n) EXCEPT !.b = resize(blk.b, n)]
  /\ UNCHANGED <<adapterVars, rch, run>>

\* b.reserve(n)
BlockReserve(n) ==
  /\ blk.pc = "on" /\ blk.steps < MaxBlockOps
  /\ blk' = [blkStep(blk, "reserve", n) EXCEPT !.b = reserve(blk.b, n)]
  /\ UNCHANGED <<adapterVars, rch, run>>

\* b.readFromUntil(rd, n)
BlockReadFromUntil(n) ==
  /\ blk.pc = "on" /\ blk.steps < MaxBlockOps
  /\ blk' = blkAfterRead(blkStep(blk, "readFromUntil", n),
                         readFromUntil(blk.b, blk.rd, n))
  /\ UNCHANGED <<adapterVars, rch, run>>

\* b.Read(p) with len(p) = plen
BlockRead(plen) ==
  /\ blk.pc = "on" /\ blk.steps < MaxBlockOps
  /\ blk' = blkAfterBlockRead(blkStep(blk, "Read", plen), blockRead(blk.b, plen))
  /\ UNCHANGED <<adapterVars, rch, run>>

\* b, rest = splitBlock(b, n)
BlockSplit(n) ==
  /\ blk.pc = "on" /\ blk.steps < MaxBlockOps
  /\ blk' = blkAfterSplit(blkStep(blk, "splitBlock", n), splitBlock(blk.b, n))
  /\ UNCHANGED <<adapterVars, rch, run>>

\* readRecord reads a record with a payload of n bytes into b, splits it off
\* and sets b.off
BlockRecord(n) ==
  /\ blk.pc = "on" /\ blk.steps < MaxBlockOps
  /\ blk' = blkAfterRecord(blkStep(blk, "readRecord", n), n,
                           readFromUntil(blk.b, blk.rd, recordHeaderLen + n))
  /\ UNCHANGED <<adapterVars, rch, run>>

\* the next readRecord goes on with nextBlock: b := nextBlock
BlockNext ==
  /\ blk.pc = "on" /\ blk.steps < MaxBlockOps
  /\ ~blk.rest.isNil
  /\ blk' = [blkStep(blk, "next", 0) EXCEPT !.b = blk.rest, !.rest = NilBlock]
  /\ UNCHANGED <<adapterVars, rch, run>>

\* a new block and one of the sources
BlockInit ==
  /\ newAdapter
  /\ rch = rchOff
  /\ run = runOff
  /\ blk \in {blkStart(s) : s \in Scripts}

BlockNextStep ==
  \/ \E n \in BlockSizes : BlockResize(n)
  \/ \E n \in BlockSizes : BlockReserve(n)
  \/ \E n \in BlockSizes : BlockReadFromUntil(n)
  \/ \E plen \in ReadSizes : BlockRead(plen)
  \/ \E n \in BlockSizes : BlockSplit(n)
  \/ \E n \in PayloadSizes : BlockRecord(n)
  \/ BlockNext

SpecBlock == BlockInit /\ [][BlockNextStep]_vars

\* ------------------------------------------------------------------------
\* main: the flags of the command and the targets of a run
\* ------------------------------------------------------------------------

\* the largest port: uint(^uint16(0))
maxPort == 65535

\* netip.IPv4Unspecified() and netip.IPv6Unspecified()
IPv4Unspecified == [kind |-> "v4", ip |-> "0.0.0.0"]
IPv6Unspecified == [kind |-> "v6", ip |-> "::"]

\* netip.ParseAddr(s) for the strings of the runs: an IPv4 address, an IPv6
\* address, an IPv4-mapped IPv6 address (kind 4in6, ip its IPv4 part), or an
\* error
parseAddr(s) ==
  IF s \in {"1.2.3.4", "0.0.0.0", "9.9.9.9", "9.9.9.10"}
  THEN [ok |-> TRUE, addr |-> [kind |-> "v4", ip |-> s]]
  ELSE IF s \in {"::1", "::", "2001:db8::9"}
  THEN [ok |-> TRUE, addr |-> [kind |-> "v6", ip |-> s]]
  ELSE IF s = "::ffff:1.2.3.4"
  THEN [ok |-> TRUE, addr |-> [kind |-> "4in6", ip |-> "1.2.3.4"]]
  ELSE IF s = "::ffff:0.0.0.0"
  THEN [ok |-> TRUE, addr |-> [kind |-> "4in6", ip |-> "0.0.0.0"]]
  ELSE IF s = "::ffff:9.9.9.9"
  THEN [ok |-> TRUE, addr |-> [kind |-> "4in6", ip |-> "9.9.9.9"]]
  ELSE [ok |-> FALSE, addr |-> IPv4Unspecified]

\* Addr.Unmap(): the IPv4 address of an IPv4-mapped IPv6 address
unmapAddr(a) == IF a.kind = "4in6" THEN [kind |-> "v4", ip |-> a.ip] ELSE a

\* Addr.Is4() and Addr.Is6()
is4(a) == a.kind = "v4"
is6(a) == a.kind \in {"v6", "4in6"}

\* the first address of addrs that is IPv4 (want4) or IPv6, or none when there
\* is none
firstAddr(addrs, want4, none) ==
  IF \E i \in 1..Len(addrs) : (IF want4 THEN is4(addrs[i]) ELSE is6(addrs[i]))
  THEN addrs[MinOf({i \in 1..Len(addrs) : (IF want4 THEN is4(addrs[i]) ELSE is6(addrs[i]))})]
  ELSE none

\* resolve after LookupHost returned answer: the error of the lookup or of
\* the parse of an address, else the first IPv4 and the first IPv6 address
\* asked for
resolve(answer, getv4, getv6) ==
  IF answer.err # ErrNil
  THEN [v4 |-> IPv4Unspecified, v6 |-> IPv6Unspecified, err |-> answer.err]
  ELSE IF \E i \in 1..Len(answer.addrs) : ~parseAddr(answer.addrs[i]).ok
  THEN [v4 |-> IPv4Unspecified, v6 |-> IPv6Unspecified, err |-> "parse error"]
  ELSE [v4 |-> IF getv4
               THEN firstAddr([i \in 1..Len(answer.addrs) |->
                                 unmapAddr(parseAddr(answer.addrs[i]).addr)],
                              TRUE, IPv4Unspecified)
               ELSE IPv4Unspecified,
        v6 |-> IF getv6
               THEN firstAddr([i \in 1..Len(answer.addrs) |->
                                 unmapAddr(parseAddr(answer.addrs[i]).addr)],
                              FALSE, IPv6Unspecified)
               ELSE IPv6Unspecified,
        err |-> ErrNil]

\* the targets runTests takes from what resolve returned
resolvedTargets(to, r) ==
  (IF to.ResolveIPv4 /\ r.v4 # IPv4Unspecified
   THEN <<[addr |-> r.v4, port |-> to.Port]>> ELSE <<>>)
  \o (IF to.ResolveIPv6 /\ r.v6 # IPv6Unspecified
      THEN <<[addr |-> r.v6, port |-> to.Port]>> ELSE <<>>)

\* the number of tests of testSuite
numTests == 6

\* the values of --ip, --port, --sni and --repeat of the runs, and what
\* LookupHost returns for the SNI
IPFlags ==
  {"", "1.2.3.4", "0.0.0.0", "::1", "::", "::ffff:1.2.3.4", "::ffff:0.0.0.0", "300.1.1.1"}
PortFlags == {443, 65535, 65536}
SNIFlags == {"", "example.com"}
RepeatFlags == {0, 1, 3}
LookupAnswers ==
  { [err |-> "no such host", addrs |-> <<>>],
    [err |-> ErrNil, addrs |-> <<"9.9.9.9">>],
    [err |-> ErrNil, addrs |-> <<"2001:db8::9">>],
    [err |-> ErrNil, addrs |-> <<"2001:db8::9", "::ffff:9.9.9.9", "9.9.9.10">>] }

\* main is started with the flags
runStart(ip, v4, v6, port, sni, repeat, dns) ==
  [runOff EXCEPT !.pc = "main", !.ip = ip, !.v4 = v4, !.v6 = v6, !.port = port,
                 !.sni = sni, !.repeat = repeat, !.dns = dns]

\* fatal(l, err): os.Exit(1)
fatal(h, err) == [h EXCEPT !.pc = "exit", !.err = err]

\* main hands the TestOptions to runTests
startTests(h, v4, v6, addr) ==
  [h EXCEPT !.pc = "runTests",
            !.to = [ResolveIPv4 |-> v4, ResolveIPv6 |-> v6, ManualIP |-> unmapAddr(addr),
                    Port |-> h.port, SNI |-> h.sni, Repeat |-> h.repeat]]

\* main from the check of the port to the call of runTests
mainFlags(h) ==
  IF h.port > maxPort THEN fatal(h, "invalid port")
  ELSE IF h.sni = "" THEN fatal(h, "must specify SNI")
  ELSE IF h.ip # ""
  THEN IF h.v4 \/ h.v6 THEN fatal(h, "cannot set ip and -4 or -6")
       ELSE IF ~parseAddr(h.ip).ok THEN fatal(h, "parse error")
       ELSE startTests(h, h.v4, h.v6, parseAddr(h.ip).addr)
  ELSE IF h.v4 = h.v6 THEN startTests(h, TRUE, TRUE, IPv4Unspecified)
  ELSE startTests(h, h.v4, h.v6, IPv4Unspecified)

\* runTests after resolve returned r
afterResolve(h, r) ==
  IF r.err # ErrNil
  THEN fatal([h EXCEPT !.lookups = h.lookups + 1], "failed to resolve SNI")
  ELSE [h EXCEPT !.pc = "suite", !.lookups = h.lookups + 1,
                 !.targets = resolvedTargets(h.to, r)]

\* runTests up to its list of targets: the lookup of the SNI when ManualIP is
\* the unspecified IPv4 address, else the one target of ManualIP
testTargets(h) ==
  IF h.to.ManualIP = IPv4Unspecified
  THEN afterResolve(h, resolve(h.dns, h.to.ResolveIPv4, h.to.ResolveIPv6))
  ELSE [h EXCEPT !.pc = "suite",
                 !.targets = <<[addr |-> h.to.ManualIP, port |-> h.to.Port]>>]

\* main: the checks of the flags
ParseFlags ==
  /\ run.pc = "main"
  /\ run' = mainFlags(run)
  /\ UNCHANGED <<adapterVars, rch, blk>>

\* runTests: the targets
DetermineTargets ==
  /\ run.pc = "runTests"
  /\ run' = testTargets(run)
  /\ UNCHANGED <<adapterVars, rch, blk>>

\* what the network does to the attempts of one test
Networks == {"up", "down", "flaky"}

\* a test function returns: the durations in microseconds. It returns at the
\* first error, with the durations measured until then
attemptSucceeded(j) ==
  [TransportEstablishDuration |-> 10410 + 333 * j,
   TLSHandshakeDuration |-> 20530 + 701 * j, err |-> ErrNil]
dialFailed ==
  [TransportEstablishDuration |-> 0, TLSHandshakeDuration |-> 0, err |-> "dial"]
handshakeFailed ==
  [TransportEstablishDuration |-> 30100, TLSHandshakeDuration |-> 0, err |-> "handshake"]

\* test(testCtx, l, addrPort, to.SNI) of the attempt j
testAttempt(net, j) ==
  IF net = "down" THEN dialFailed
  ELSE IF net = "flaky" /\ j = 0 THEN handshakeFailed
  ELSE attemptSucceeded(j)

\* runTests: the TestResult of one target, Attempts of length Repeat
testResult(to, addrPort, net) ==
  [AddrPort |-> addrPort, SNI |-> to.SNI,
   Attempts |-> [j \in 1..to.Repeat |-> testAttempt(net, j - 1)]]

RECURSIVE sumAttempts(_, _)
\* printTable: the loop over the attempts of one result
sumAttempts(attempts, acc) ==
  IF attempts = <<>> THEN acc
  ELSE sumAttempts(Tail(attempts),
         IF Head(attempts).err = ErrNil
         THEN [successCount |-> acc.successCount + 1,
               totalTransport |-> acc.totalTransport + Head(attempts).TransportEstablishDuration,
               totalTLS |-> acc.totalTLS + Head(attempts).TLSHandshakeDuration]
         ELSE acc)

\* printTable: the status as if the switch asked for all attempts succeeded first
statusSuccessFirst(successCount, totalAttempts) ==
  [word |-> IF successCount = totalAttempts THEN "Success"
            ELSE IF successCount = 0 THEN "Failed" ELSE "Partial",
   successCount |-> successCount, totalAttempts |-> totalAttempts]

\* printTable: the switch that makes the status
status(successCount, totalAttempts) ==
  [word |-> IF successCount = 0 THEN "Failed"
            ELSE IF successCount = totalAttempts THEN "Success" ELSE "Partial",
   successCount |-> successCount, totalAttempts |-> totalAttempts]

\* printTable: avgTransport and avgTLS, the division being that of integers
average(total, successCount) ==
  IF successCount > 0 THEN total \div successCount ELSE 0

\* printTable: formatDur, "0 ms" or the milliseconds with one decimal; the
\* durations the tests return here are none halfway between two decimals
formatDur(d) ==
  IF d = 0 THEN <<"0 ms">>
  ELSE <<((d + 50) \div 100) \div 10, ((d + 50) \div 100) % 10, "ms">>

\* printTable: the row of one result from what the loop counted
rowOf(testName, r, sums) ==
  [testName |-> testName, SNI |-> r.SNI, AddrPort |-> r.AddrPort,
   status |-> status(sums.successCount, Len(r.Attempts)),
   transport |-> formatDur(average(sums.totalTransport, sums.successCount)),
   tls |-> formatDur(average(sums.totalTLS, sums.successCount))]

\* printTable: tbl.AddRow for one result
tableRow(testName, r) ==
  rowOf(testName, r,
        sumAttempts(r.Attempts, [successCount |-> 0, totalTransport |-> 0, totalTLS |-> 0]))

\* printTable: the rows in the order of the tests, the targets in theirs
printTable(results) ==
  Concat([i \in 1..Len(results) |->
            [x \in 1..Len(results[i]) |-> tableRow(i, results[i][x])]])

\* runTests: one test of testSuite, Repeat attempts at every target
RunTestCase ==
  /\ run.pc = "suite"
  /\ run.i < numTests
  /\ \E net \in Networks :
       run' = [run EXCEPT !.i = run.i + 1,
                          !.attempts = Append(@, [x \in 1..Len(run.targets) |->
                                                    testResult(run.to, run.targets[x], net)])]
  /\ UNCHANGED <<adapterVars, rch, blk>>

\* runTests: printTable, return nil
FinishTests ==
  /\ run.pc = "suite"
  /\ run.i = numTests
  /\ run' = [run EXCEPT !.pc = "done", !.table = printTable(run.attempts)]
  /\ UNCHANGED <<adapterVars, rch, blk>>

\* a run of the command with its flags
RunInit ==
  /\ newAdapter
  /\ rch = rchOff
  /\ blk = blkOff
  /\ run \in {runStart(ip, v4, v6, port, sni, repeat, dns) :
                ip \in IPFlags, v4 \in BOOLEAN, v6 \in BOOLEAN, port \in PortFlags,
                sni \in SNIFlags, repeat \in RepeatFlags, dns \in LookupAnswers}

RunNext ==
  \/ ParseFlags
  \/ DetermineTargets
  \/ RunTestCase
  \/ FinishTests

SpecRun == RunInit /\ [][RunNext]_vars

\* ------------------------------------------------------------------------
\* Properties
\* ------------------------------------------------------------------------

\* the writer is inside Write, holding the write lock
InWrite(w) == wr[w].pc \in {"pass", "frag", "sleep", "ret"}

\* the data of the log entries l, in order
dataOf(l) == [k \in 1..Len(l) |-> l[k].data]

\* the entries of the log l for the zone z
zoneOf(l, z) == SelectSeq(l, LAMBDA e : e.zone = z)

\* the counts of the entries of l that gave no error
acceptedOf(l) == LET ok == SelectSeq(l, LAMBDA e : e.err = ErrNil)
                 IN [k \in 1..Len(ok) |-> ok[k].n]

\* what ReadClientHello returns for each buffer a caller hands to Write
helloOf == [b \in Inputs |-> ReadClientHello(b)]

\* the buffers ReadClientHello gives an error for
Unparsable == {b \in Inputs : helloOf[b].err # ErrNil}

\* the ClientHellos that decode with an empty server name
NoServerName ==
  {b \in Inputs : helloOf[b].err = ErrNil /\ helloOf[b].msg.ServerName = <<>>}

\* the ClientHellos that decode with a server name
WithServerName ==
  {b \in Inputs : helloOf[b].err = ErrNil /\ helloOf[b].msg.ServerName # <<>>}

\* C1: every Write call after the first makes exactly one conn.Write, of
\* exactly the caller's bytes, a valid ClientHello included: at most one while
\* the call runs, exactly one when it returns.
C1_LaterWritesPassThrough ==
  \A w \in Writers :
    (InWrite(w) /\ wr[w].call > 1) =>
      LET l == logOf(wr[w].call)
      IN /\ Len(l) <= 1
         /\ \A k \in 1..Len(l) : l[k].data = wr[w].b
         /\ wr[w].pc = "ret" => Len(l) = 1

\* C1 witness: a Write after the first returns, its bytes a ClientHello with a
\* server name, written in one piece.
C1_Witness ==
  \E w \in Writers :
    /\ wr[w].pc = "ret" /\ wr[w].call > 1 /\ wr[w].b = HelloSNI
    /\ dataOf(logOf(wr[w].call)) = <<HelloSNI>>

\* C2: isFirstWrite is TRUE exactly as long as no Write call has taken the
\* write lock (so it is FALSE from the first call on, however that call ends),
\* and once FALSE it stays FALSE through every Write, Read, Close and deadline
\* call.
C2_FlagClearedOnce ==
  /\ [](isFirstWrite <=> writes = 0)
  /\ [][~isFirstWrite => ~isFirstWrite']_vars

\* C2 witness: the first Write returns a transport error on a closed
\* connection, a Read has been made, and the flag is cleared.
C2_Witness ==
  \E w \in Writers :
    /\ wr[w].pc = "ret" /\ wr[w].first /\ wr[w].err # ErrNil
    /\ conn.closed /\ reads > 0 /\ ~isFirstWrite

\* C3: in a fragmented Write, the fragments handed to conn.Write for a zone
\* that writeFragments has finished are, concatenated in order, the zone's
\* bytes; those of the zone in progress are the bytes before position.
C3_FragmentsRoundTrip ==
  \A w \in Writers :
    (InWrite(w) /\ wr[w].frag /\ wr[w].err = ErrNil) =>
      LET s == wr[w]
          l == logOf(s.call)
      IN \A z \in 0..2 :
           /\ z < s.i => Concat(dataOf(zoneOf(l, z))) = s.chunks[z + 1]
           /\ (z = s.i /\ s.pc \in {"frag", "sleep"}) =>
                Concat(dataOf(zoneOf(l, z))) = Sub(s.chunks[z + 1], 0, s.position)

\* C3 witness: a fragmented Write returns without error after a zone went out
\* in two fragments or more.
C3_Witness ==
  \E w \in Writers :
    /\ wr[w].pc = "ret" /\ wr[w].frag /\ wr[w].err = ErrNil
    /\ \E z \in 0..2 : Len(zoneOf(logOf(wr[w].call), z)) >= 2

\* C4: when ReadClientHello gives an error for the bytes of the first Write,
\* the adapter makes one conn.Write of exactly those bytes and Write returns
\* what that conn.Write returned, never the error of the parse.
C4_ParseFailureFallsBack ==
  \A w \in Writers :
    (InWrite(w) /\ wr[w].first /\ wr[w].b \in Unparsable) =>
      LET l == logOf(wr[w].call)
      IN /\ Len(l) <= 1
         /\ \A k \in 1..Len(l) : l[k].data = wr[w].b
         /\ wr[w].pc = "ret" =>
              /\ Len(l) = 1
              /\ wr[w].n = l[1].n
              /\ wr[w].err = l[1].err

\* C4 witness: the first Write, of "hello world", returns after one write of
\* those bytes.
C4_Witness ==
  \E w \in Writers :
    /\ wr[w].pc = "ret" /\ wr[w].first /\ wr[w].b = HelloWorld
    /\ dataOf(logOf(wr[w].call)) = <<HelloWorld>>
    /\ wr[w].n = Len(HelloWorld) /\ wr[w].err = ErrNil

\* C5: when the first Write carries a ClientHello that decodes with an empty
\* server name, the adapter makes one conn.Write of exactly the caller's bytes
\* and applies no range of the policy.
C5_EmptyServerNameFallsBack ==
  \A w \in Writers :
    (InWrite(w) /\ wr[w].first /\ wr[w].b \in NoServerName) =>
      LET l == logOf(wr[w].call)
      IN /\ ~wr[w].frag
         /\ Len(l) <= 1
         /\ \A k \in 1..Len(l) : l[k].data = wr[w].b /\ l[k].zone = -1

\* C6: a fragmented Write that returns an error returns with it the number of
\* bytes conn.Write accepted in the sub-writes before the failing one.
C6_ErrorReturnsCountSoFar ==
  \A w \in Writers :
    (wr[w].pc = "ret" /\ wr[w].frag /\ wr[w].err # ErrNil) =>
      wr[w].n = SumSeq(acceptedOf(logOf(wr[w].call)))

\* C7: in a fragmented Write, a conn.Write that gives an error is the last
\* conn.Write of the call, the call is then about to return that very error,
\* and what was handed to conn.Write so far is a prefix of the caller's bytes,
\* no byte twice.
C7_AbortOnFirstFailure ==
  \A w \in Writers :
    (InWrite(w) /\ wr[w].frag) =>
      LET l == logOf(wr[w].call)
          sent == Concat(dataOf(l))
      IN /\ \A k \in 1..Len(l) :
              l[k].err # ErrNil =>
                k = Len(l) /\ wr[w].pc = "ret" /\ wr[w].err = l[k].err
         /\ Len(sent) <= Len(wr[w].b)
         /\ sent = Sub(wr[w].b, 0, Len(sent))

\* C7 witness: a fragmented Write returns the error of its third or later
\* conn.Write, with bytes of the caller left unsent.
C7_Witness ==
  \E w \in Writers :
    LET l == logOf(wr[w].call)
    IN /\ wr[w].pc = "ret" /\ wr[w].frag /\ wr[w].err = ErrPipe
       /\ Len(l) >= 3
       /\ l[Len(l)].err = ErrPipe
       /\ Len(Concat(dataOf(l))) < Len(wr[w].b)

\* C8: the lengths a zone's fragment can be drawn from, before clamping, are
\* all of min..max of the zone's range, max included, and min alone when
\* min = max; the delays that can be drawn are all of min..max of Delay.
C8_DrawsFromClosedInterval ==
  \A w \in Writers :
    wr[w].pc = "frag" =>
      LET rng == zoneRange(policy, wr[w].i)
      IN /\ drawRange(rng) = At(rng, 0)..At(rng, 1)
         /\ drawRange(policy.Delay) = At(policy.Delay, 0)..At(policy.Delay, 1)

\* C9: in the first Write of a ClientHello with a server name, every pass of
\* the loop of writeFragments whose conn.Write succeeds takes at least one
\* byte of the zone: position grows, so the loop comes to its end.
C9_EveryPassMakesProgress ==
  [][\A w \in Writers :
       (/\ wr[w].pc = "frag"
        /\ wr[w].b \in WithServerName
        /\ wr'[w] # wr[w]
        /\ wr'[w].pc \in {"frag", "sleep"}
        /\ wr'[w].i = wr[w].i)
       => wr'[w].position > wr[w].position]_vars

\* C10: the conn.Write calls of one Write call are never interleaved with
\* those of another: the log never returns to a call it has left, and while a
\* Write call that has written still has fragments or a delay ahead, the last
\* conn.Write made is its own.
C10_NoInterleaving ==
  /\ \A i, j, k \in DOMAIN connLog :
       (i < j /\ j < k /\ connLog[i].call = connLog[k].call) =>
         connLog[j].call = connLog[i].call
  /\ \A w \in Writers :
       (wr[w].pc \in {"frag", "sleep"} /\ logOf(wr[w].call) # <<>>) =>
         connLog[Len(connLog)].call = wr[w].call

\* C10 witness: a Write call sleeps between two fragments while another Write
\* call waits for the write lock.
C10_Witness ==
  \E w, v \in Writers :
    /\ w # v
    /\ wr[w].pc = "sleep" /\ logOf(wr[w].call) # <<>>
    /\ wr[v].pc = "lock"

\* C11: Read and Write wait for different locks.  A Write that waits for the
\* write lock can take it whenever no writer holds it, wherever a Read is, in
\* conn.Read included, and then goes on to its return; a Read that waits for
\* the read lock can take it whenever no reader holds it, wherever a Write is,
\* between two fragments and asleep included, and then goes on to its return.
C11_SeparateLocks ==
  /\ writeMutex \in Writers \cup {NoOne}
  /\ readMutex \in Readers \cup {NoOne}
  /\ \A w \in Writers :
       /\ (wr[w].pc = "lock" /\ writeMutex = NoOne) => ENABLED WriteLock(w)
       /\ wr[w].pc = "pass" => ENABLED WritePass(w)
       /\ wr[w].pc = "sleep" => ENABLED WriteSleep(w)
       /\ wr[w].pc = "ret" => ENABLED WriteReturn(w)
       /\ (wr[w].pc = "frag" /\ emptyWrites(wr[w].call) < MaxEmptyWrites) =>
            ENABLED WriteFragment(w)
  /\ \A r \in Readers :
       /\ (rdr[r].pc = "lock" /\ readMutex = NoOne) => ENABLED ReadLock(r)
       /\ rdr[r].pc = "read" => ENABLED ReadConn(r)
       /\ rdr[r].pc = "ret" => ENABLED ReadReturn(r)

\* C11 witness: a Read waits for the read lock, which is free, while a Write
\* sleeps between two fragments, holding the write lock; and a Write waits for
\* the write lock while the Read is in conn.Read.
C11_Witness ==
  \E w \in Writers, r \in Readers :
    /\ wr[w].pc = "sleep" /\ writeMutex = w
    /\ rdr[r].pc = "lock" /\ readMutex = NoOne

\* C12: Read returns the very count and the very error conn.Read returned, a
\* positive count that comes with an error included, before and after the
\* first Write.
C12_ReadPassesThrough ==
  \A r \in Readers :
    rdr[r].pc = "ret" => rdr[r].n = rdr[r].tn /\ rdr[r].err = rdr[r].terr

\* ReadClientHello has returned
Returned == rch.pc \in {"done", "split"}

\* C13: a ClientHello message carried in two records, the first with 4 bytes
\* of it or more, decodes without error, after two records read, into the
\* ClientHelloMsg the same message decodes into when carried in one record,
\* every field and Raw included, wherever the message is cut.
C13_TwoRecordsDecodeAsOne ==
  (Returned /\ rch.case.kind = "split" /\ rch.case.k >= 4) =>
    /\ rch.err = ErrNil
    /\ rch.records = 2
    /\ ReadClientHello(rch.case.whole).err = ErrNil
    /\ rch.msg = ReadClientHello(rch.case.whole).msg
    /\ rch.msg.Raw = From(rch.case.whole, recordHeaderLen)
    /\ rch.msg.ServerName = rch.case.host

\* C13 witness: a ClientHello cut inside its server_name extension has been
\* decoded from its two records.
C13_Witness ==
  /\ rch.pc = "done" /\ rch.case.kind = "split" /\ rch.case.k = 55
  /\ rch.records = 2 /\ rch.err = ErrNil
  /\ rch.msg.ServerName = hostAB /\ rch.msg.TicketSupported

\* C14: a well-formed ClientHello whose server_name extension has the
\* hostname entry h decodes without error, with ServerName = h, whichever
\* extensions stand before and after the server_name extension.
C14_ServerNameDecoded ==
  (Returned /\ rch.case.kind = "sni") =>
    rch.err = ErrNil /\ rch.msg.ServerName = rch.case.host

\* C14 witness: "example.com" has been decoded from a server_name extension
\* that stands after supported_curves and before session_ticket.
C14_Witness ==
  /\ rch.pc = "done" /\ rch.case.kind = "sni"
  /\ rch.msg.ServerName = hostExample
  /\ rch.msg.SupportedCurves = <<23, 24>> /\ rch.msg.TicketSupported
  /\ rch.case.at > hostOffset(helloRandom, <<>>, oneSuite, <<>>)

\* C15: when the first Write is cut into chunks, the chunk before the SNI
\* ends at the offset the hostname has in the server_name extension, also in
\* a ClientHello where the bytes of the hostname stand earlier as well.
C15_SplitAtHostnameOffset ==
  (rch.pc = "split" /\ rch.case.at >= 0 /\ rch.err = ErrNil) =>
    /\ rch.plan.frag
    /\ Len(rch.plan.chunks[1]) = rch.case.at

\* C16: a record whose header has the type 0x80, a type other than handshake
\* or a version of 0x1000 or more is rejected on its header: ReadClientHello
\* returns the error of the rejection after one readRecord, with no byte of
\* handshake taken, whatever length the header declares and whether the
\* payload is there or the stream ends after the header (no end of stream is
\* met, as it would be were the payload asked for).
C16_HeaderRejectedBeforePayload ==
  (Returned /\ rch.case.kind \in {"sslv2", "type", "version"}) =>
    /\ rch.err \in {ErrNotTLS, ErrSSLv2}
    /\ rch.records = 1
    /\ rch.st.hand = <<>>

\* C16 witness: a header of type 23 that declares 65535 bytes, with nothing
\* after it, has been rejected.
C16_Witness ==
  /\ rch.pc = "done" /\ rch.case.kind = "type"
  /\ Len(rch.case.b) = recordHeaderLen /\ U16(rch.case.b, 3) = 65535
  /\ rch.err = ErrNotTLS

\* C17: every structural failure gives the one error "not a tls packet" (the
\* type 0x80, a type other than handshake, a version of 0x1000 or more, fewer
\* than 4 bytes of handshake, a handshake type other than ClientHello, a
\* failed decode), and a truncated stream gives another error.
C17_OneErrorKind ==
  Returned =>
    /\ rch.case.kind \in {"sslv2", "type", "version", "short", "other", "decode"} =>
         rch.err = ErrNotTLS
    /\ rch.case.kind = "truncated" => rch.err \notin {ErrNil, ErrNotTLS}

\* C18: a ClientHello whose session id length byte is more than 32 is
\* rejected, a decoded ClientHelloMsg has a SessionID of 32 bytes at most (the
\* bytes the length declares), and for a rejected one the first Write is
\* written as it is.
C18_SessionIDAtMost32 ==
  Returned =>
    /\ rch.case.sid > 32 => rch.err = ErrNotTLS
    /\ rch.err = ErrNil =>
         Len(rch.msg.SessionID) <= 32 /\ Len(rch.msg.SessionID) = rch.case.sid
    /\ (rch.pc = "split" /\ rch.case.sid > 32) => ~rch.plan.frag

\* C18 witness: a ClientHello with a session id of 33 bytes, all there, has
\* been rejected and is to be written as it is.
C18_Witness ==
  /\ rch.pc = "split" /\ rch.case.kind = "sid" /\ rch.case.sid = 33
  /\ rch.case.at > 0
  /\ rch.err = ErrNotTLS /\ ~rch.plan.frag

\* C19: a ClientHello whose cipher suites' length is odd or more than the
\* bytes that follow it is rejected, and a decoded ClientHelloMsg has as many
\* cipher suites as half the length declared.
C19_CipherSuiteLength ==
  Returned =>
    /\ (rch.case.kind = "cs" /\ (rch.case.cs % 2 = 1 \/ rch.case.cs > rch.case.csRest)) =>
         rch.err = ErrNotTLS
    /\ rch.err = ErrNil => Len(rch.msg.CipherSuites) * 2 = rch.case.cs

\* C19 witness: a ClientHello that declares 3 bytes of cipher suites, all
\* there, has been rejected.
C19_Witness ==
  /\ rch.pc = "done" /\ rch.case.kind = "cs"
  /\ rch.case.cs = 3 /\ rch.case.csRest > 3
  /\ rch.err = ErrNotTLS

\* C20: with bytes after the compression methods, the ClientHello is rejected
\* unless the two bytes of the extensions' length are there and declare just
\* the bytes that follow them (more fails, less fails); with no byte after the
\* compression methods it decodes, with no server name, no session ticket and
\* every flag false.
C20_ExtensionsLengthExact ==
  (Returned /\ rch.case.kind = "ext") =>
    /\ (rch.case.tailLen > 0 /\ (rch.case.tailLen < 2 \/ rch.case.ext # rch.case.tailLen - 2)) =>
         rch.err = ErrNotTLS
    /\ (rch.case.tailLen >= 2 /\ rch.case.ext = rch.case.tailLen - 2) => rch.err = ErrNil
    /\ rch.case.tailLen = 0 =>
         /\ rch.err = ErrNil
         /\ rch.msg.ServerName = <<>> /\ rch.msg.SessionTicket = <<>>
         /\ rch.msg.SupportedCurves = <<>> /\ rch.msg.SupportedPoints = <<>>
         /\ ~rch.msg.NextProtoNeg /\ ~rch.msg.OcspStapling /\ ~rch.msg.TicketSupported

\* C20 witness: an extensions block that declares one byte more than follows
\* has been rejected.
C20_Witness ==
  /\ rch.pc = "done" /\ rch.case.kind = "ext"
  /\ rch.case.tailLen = 9 /\ rch.case.ext = 8
  /\ rch.err = ErrNotTLS

\* C21: the server name is the name of the first entry of name type 0 of the
\* server_name list: the entries of other name types before it are stepped
\* over, and the entries after it, hostname entries included, neither change
\* the name nor make the decoding fail.
C21_FirstHostnameEntry ==
  (Returned /\ rch.case.kind = "names") =>
    rch.err = ErrNil /\ rch.msg.ServerName = rch.case.host

\* C21 witness: "ab" has been decoded from a list with two entries of other
\* name types before it and a second hostname entry after it.
C21_Witness ==
  /\ rch.pc = "done" /\ rch.case.kind = "names"
  /\ rch.case.at = hostOffset(helloRandom, <<>>, oneSuite, <<>>) + 8
  /\ bytesIndex(rch.case.b, <<0, 0, 1, 122>>) > rch.case.at
  /\ rch.err = ErrNil /\ rch.msg.ServerName = hostAB

\* the ClientHelloMsg m without its Raw
withoutRaw(m) == [m EXCEPT !.Raw = <<>>]

\* C22: a ClientHello that decodes still decodes when an extension of an
\* unknown type is added to it, whatever the body of the extension, and every
\* field but Raw is what it was without the extension.
C22_UnknownExtensionNeutral ==
  (Returned /\ rch.case.kind = "added" /\ ReadClientHello(rch.case.whole).err = ErrNil) =>
    /\ rch.err = ErrNil
    /\ withoutRaw(rch.msg) = withoutRaw(ReadClientHello(rch.case.whole).msg)

\* C23: a fragmented first Write that returns without an error returns the
\* length of the caller's bytes, and the transport has accepted as many, also
\* over a transport that reports short writes without an error.
C23_CountIsLength ==
  \A w \in Writers :
    (wr[w].pc = "ret" /\ wr[w].first /\ wr[w].frag /\ wr[w].err = ErrNil) =>
      /\ wr[w].n = Len(wr[w].b)
      /\ SumSeq(acceptedOf(logOf(wr[w].call))) = Len(wr[w].b)

\* the bytes of the zone z handed to conn.Write in the log entries l
writtenOf(l, z) == Concat(dataOf(zoneOf(l, z)))

\* the entry l[k] of a fragmented Write of the chunks ch comes after the
\* entries of its own and of earlier zones only, the earlier zones written to
\* their end; its bytes are the next bytes of its zone and of no other zone;
\* and they are no more than max
fragmentInZone(l, k, ch, max) ==
  /\ \A j \in 1..(k - 1) : l[j].zone <= l[k].zone
  /\ \A z \in 0..(l[k].zone - 1) : writtenOf(Sub(l, 0, k - 1), z) = ch[z + 1]
  /\ Len(writtenOf(Sub(l, 0, k), l[k].zone)) <= Len(ch[l[k].zone + 1])
  /\ writtenOf(Sub(l, 0, k), l[k].zone)
       = Sub(ch[l[k].zone + 1], 0, Len(writtenOf(Sub(l, 0, k), l[k].zone)))
  /\ Len(l[k].data) <= max

\* the maximum of the range configured for the zone z: BSL[1] for pre-SNI,
\* SL[1] for SNI, ASL[1] for post-SNI
configuredMax(p, z) == At(<<p.BSL, p.SL, p.ASL>>[z + 1], 1)

\* C25: in a fragmented first Write the zones go out in the order pre-SNI,
\* SNI, post-SNI, a zone only after the zones before it went out whole; every
\* conn.Write carries bytes of one zone only; and no conn.Write of a zone
\* carries more bytes than the maximum of the zone's own range (BSL, SL, ASL).
C25_ZonesInOrderWithinRange ==
  \A w \in Writers :
    (InWrite(w) /\ wr[w].first /\ wr[w].frag) =>
      \A k \in 1..Len(logOf(wr[w].call)) :
        fragmentInZone(logOf(wr[w].call), k, wr[w].chunks,
                       configuredMax(policy, logOf(wr[w].call)[k].zone))

\* C25 witness: a fragmented first Write of a ClientHello with bytes after the
\* server name returns without an error, under the ranges 2000-2000, 1-2 and
\* 3-4: one write before the SNI, two of one byte for the SNI and two or more
\* of at most 4 bytes after it.
C25_Witness ==
  \E w \in Writers :
    /\ wr[w].pc = "ret" /\ wr[w].first /\ wr[w].frag /\ wr[w].err = ErrNil
    /\ wr[w].b = HelloSNITicket /\ policy.ASL = <<3, 4>>
    /\ Len(zoneOf(logOf(wr[w].call), 0)) = 1
    /\ Len(zoneOf(logOf(wr[w].call), 1)) = 2
    /\ Len(zoneOf(logOf(wr[w].call), 2)) >= 2
    /\ \A k \in 1..Len(logOf(wr[w].call)) :
         logOf(wr[w].call)[k].zone = 2 => Len(logOf(wr[w].call)[k].data) \in 1..4

\* C26: in a fragmented first Write the three chunks are, one after the
\* other, the caller's buffer byte for byte; the SNI chunk is the decoded server
\* name, byte for byte and in length; and the caller's buffer is the same at
\* every step of the call.
C26_ZonesPartitionBuffer ==
  /\ [](\A w \in Writers :
          (InWrite(w) /\ wr[w].first /\ wr[w].frag) =>
            /\ Len(wr[w].chunks) = 3
            /\ Concat(wr[w].chunks) = wr[w].b
            /\ wr[w].chunks[2] = helloOf[wr[w].b].msg.ServerName
            /\ Len(wr[w].chunks[2]) = Len(helloOf[wr[w].b].msg.ServerName))
  /\ [][\A w \in Writers :
          (wr[w].pc \in {"lock", "pass", "frag", "sleep"}) => wr'[w].b = wr[w].b]_vars

\* C26 witness: the fragmented first Write of a ClientHello with bytes after
\* its server name "ab" returns: 61 bytes before the SNI, "ab", and the rest.
C26_Witness ==
  \E w \in Writers :
    /\ wr[w].pc = "ret" /\ wr[w].first /\ wr[w].frag /\ wr[w].err = ErrNil
    /\ wr[w].b = HelloSNITicket
    /\ Len(wr[w].chunks[1]) = 61 /\ wr[w].chunks[2] = hostAB
    /\ Len(wr[w].chunks[3]) = Len(HelloSNITicket) - 63
    /\ Len(wr[w].chunks[3]) > 0

\* the step hands a fragment of the writer w to conn.Write and conn.Write
\* gives no error
FragmentWritten(w) ==
  /\ wr[w].pc = "frag"
  /\ Len(connLog') = Len(connLog) + 1
  /\ connLog'[Len(connLog')].call = wr[w].call
  /\ connLog'[Len(connLog')].err = ErrNil

\* C27: under a delay range above zero, a fragment write that gives no error
\* is followed by a sleep of a delay of the range, after the last fragment of
\* a zone and of the last zone too; and a writer that sleeps makes no conn.Write
\* and does not return before the sleep ends.
C27_DelayAfterEveryFragment ==
  [][\A w \in Writers :
       At(policy.Delay, 0) > 0 =>
         /\ FragmentWritten(w) =>
              /\ wr'[w].pc = "sleep"
              /\ wr'[w].delay \in At(policy.Delay, 0)..At(policy.Delay, 1)
         /\ (wr[w].pc = "sleep" /\ Len(connLog') = Len(connLog) + 1) =>
              connLog'[Len(connLog')].call # wr[w].call
         /\ (wr[w].pc = "sleep" /\ wr'[w].pc # "sleep") =>
              /\ wr'[w] = nextFragment([wr[w] EXCEPT !.delay = 0])
              /\ connLog' = connLog]_vars

\* C27 witness: the writer sleeps after the last fragment of the last zone of
\* a ClientHello with bytes after its server name; nothing is left to write.
C27_Witness ==
  \E w \in Writers :
    /\ wr[w].pc = "sleep" /\ wr[w].first /\ wr[w].frag /\ wr[w].delay > 0
    /\ wr[w].b = HelloSNITicket
    /\ wr[w].i = 2 /\ wr[w].position = Len(wr[w].chunks[3])
    /\ nextFragment([wr[w] EXCEPT !.delay = 0]).pc = "ret"

RECURSIVE recordEnd(_, _)
\* where the k-th record of the stream b ends, by the lengths its record
\* headers declare
recordEnd(b, k) ==
  IF k = 0 THEN 0
  ELSE recordEnd(b, k - 1) + recordHeaderLen + U16(b, recordEnd(b, k - 1) + 3)

RECURSIVE payloadsOf(_, _)
\* the payloads of the first k records of the stream b, one after the other
payloadsOf(b, k) ==
  IF k = 0 THEN <<>>
  ELSE payloadsOf(b, k - 1) \o Sub(b, recordEnd(b, k - 1) + recordHeaderLen, recordEnd(b, k))

\* the records readRecord has read whole: its calls but one that gave an error
recordsRead == rch.records - (IF rch.st.err # ErrNil THEN 1 ELSE 0)

\* the bytes read from the source and not yet part of a record read
pendingBytes == IF rch.st.nextBlock.isNil THEN <<>> ELSE rch.st.nextBlock.data

\* C28: after every readRecord call the accumulation buffer is the payloads
\* of the records read so far, in order and without their headers; and the
\* pending block followed by what the source still holds is the stream from
\* the byte after the last record read, so that no byte is lost or reordered
\* and the next record is read from there.
C28_NoByteLostBetweenRecords ==
  rch.pc # "off" =>
    /\ rch.st.hand = payloadsOf(rch.case.b, recordsRead)
    /\ pendingBytes \o From(rch.st.rd.s, rch.st.rd.i)
         = From(rch.case.b, recordEnd(rch.case.b, recordsRead))

\* C28 witness: three records are read from a stream of more than 1024 bytes,
\* the second and the third from a pending block the first read left, the
\* third after a further read of the source.
C28_Witness ==
  /\ rch.pc = "done" /\ rch.err = ErrNil /\ rch.records = 3
  /\ rch.case.kind = "records" /\ Len(rch.case.b) > blockBaseCap
  /\ recordEnd(rch.case.b, 2) < blockBaseCap
  /\ rch.st.hand = From(longHello.whole, recordHeaderLen)
  /\ rch.msg.ServerName = hostAB

\* read offset <= length <= capacity
blockInvariant(b) == b.off <= Len(b.data) /\ Len(b.data) <= b.cap

\* C29: after every resize, reserve, readFromUntil, Read and splitBlock of a
\* sequence of such operations, and after readRecord set the offset to the
\* length of the record header, the block and the block split off it have
\* read offset <= length <= capacity.
C29_BlockInvariant ==
  blk.pc # "off" => blockInvariant(blk.b) /\ blockInvariant(blk.rest)

\* resize and reserve never reduce the capacity of the block
CapacityNeverReduced ==
  (blk.pc = "on" /\ blk.op \in {"resize", "reserve"}) => blk.b.cap >= blk.pre.cap

\* what the source returned at its reads of the last operation
readsOf(h) == From(h.rd.log, Len(h.preRd.log))

\* the length of the block after the first k of those reads
lengthAfter(h, k) ==
  Len(h.pre.data) + SumSeq([j \in 1..k |-> readsOf(h)[j].n])

\* the bytes of those reads, one after the other
bytesOf(h) == Concat([j \in 1..Len(readsOf(h)) |-> readsOf(h)[j].bytes])

\* C30: readFromUntil(source, n) on a block that holds n bytes or more returns
\* nil without a read.  Else it reads until a read brings the length to n or
\* reports an error: it returns nil exactly when the last read brought the
\* length to n or more, an error of that same read or not, and otherwise the
\* error of the last read as the source gave it; the block holds what it held
\* and the bytes of all the reads.
C30_ReadFromUntil ==
  (blk.pc = "on" /\ blk.op = "readFromUntil") =>
    IF Len(blk.pre.data) >= blk.n
    THEN /\ blk.err = ErrNil
         /\ readsOf(blk) = <<>>
         /\ blk.b = blk.pre
    ELSE /\ readsOf(blk) # <<>>
         /\ \A k \in 1..(Len(readsOf(blk)) - 1) :
              lengthAfter(blk, k) < blk.n /\ readsOf(blk)[k].err = ErrNil
         /\ blk.err = ErrNil <=> lengthAfter(blk, Len(readsOf(blk))) >= blk.n
         /\ blk.err # ErrNil => blk.err = readsOf(blk)[Len(readsOf(blk))].err
         /\ blk.b.data = blk.pre.data \o bytesOf(blk)
         /\ Len(blk.b.data) = lengthAfter(blk, Len(readsOf(blk)))

\* C30 witness: readFromUntil returns nil after a read that brought the
\* length to n together with an error.
C30_Witness ==
  /\ blk.pc = "on" /\ blk.op = "readFromUntil" /\ blk.err = ErrNil
  /\ Len(blk.pre.data) < blk.n
  /\ readsOf(blk) # <<>>
  /\ readsOf(blk)[Len(readsOf(blk))].err # ErrNil
  /\ Len(blk.b.data) >= blk.n

\* readFromUntil fails with the error of the source, io.EOF or another, and
\* keeps the bytes read before it
ReadFromUntilFails ==
  /\ blk.pc = "on" /\ blk.op = "readFromUntil" /\ blk.err = ErrClosed
  /\ blk.b.data = <<1, 2, 3>> /\ blk.n = 5

\* C24: a run with a valid address for --ip makes no DNS lookup; with -4 or
\* -6 as well it ends before any test; and else, the port and the SNI being
\* valid, it tests one target: that address, 0.0.0.0 too, with the port.
C24_ManualIPOneTarget ==
  (run.pc # "off" /\ run.ip # "" /\ parseAddr(run.ip).ok) =>
    /\ run.lookups = 0
    /\ (run.v4 \/ run.v6) => (run.pc \in {"main", "exit"} /\ run.attempts = <<>>)
    /\ run.pc \in {"suite", "done"} =>
         run.targets = <<[addr |-> unmapAddr(parseAddr(run.ip).addr), port |-> run.port]>>
    /\ (run.pc = "exit" /\ run.port <= maxPort /\ run.sni # "") => (run.v4 \/ run.v6)

\* the runs with --ip, but for the addresses that are or unmap to 0.0.0.0,
\* make no lookup and test the one target; with -4 or -6 they end before a test
ManualIPButUnspecified ==
  (run.pc # "off" /\ run.ip # "" /\ parseAddr(run.ip).ok
     /\ unmapAddr(parseAddr(run.ip).addr) # IPv4Unspecified) =>
    /\ run.lookups = 0
    /\ (run.v4 \/ run.v6) => (run.pc \in {"main", "exit"} /\ run.attempts = <<>>)
    /\ run.pc \in {"suite", "done"} =>
         run.targets = <<[addr |-> unmapAddr(parseAddr(run.ip).addr), port |-> run.port]>>
    /\ (run.pc = "exit" /\ run.port <= maxPort /\ run.sni # "") => (run.v4 \/ run.v6)

\* the stream b starts with a whole handshake record that readRecord accepts,
\* with a payload of fewer than 4 bytes
ShortFirstRecord(b) ==
  /\ Len(b) >= recordHeaderLen
  /\ At(b, 0) = recordTypeHandshake /\ U16(b, 1) < versionLimit
  /\ U16(b, 3) < 4
  /\ Len(b) >= recordHeaderLen + U16(b, 3)

\* C31: when the first record holds fewer than 4 bytes ReadClientHello returns
\* "not a tls packet" after that one readRecord, whatever records follow; when
\* the first byte of the handshake message is not 1 it goes on reading records
\* until the 4+n bytes are there, returns the error of a record it could not
\* read, and else returns "not a tls packet" with the 4+n bytes accumulated.
C31_ShortOrOtherMessage ==
  /\ (rch.pc # "off" /\ rch.records >= 1 /\ ShortFirstRecord(rch.case.b)) =>
       /\ Returned /\ rch.records = 1
       /\ rch.err = ErrNotTLS
  /\ (rch.pc # "off" /\ rch.st.err = ErrNil /\ Len(rch.st.hand) >= 4
        /\ At(rch.st.hand, 0) # typeClientHello) =>
       /\ rch.pc = "more" => rch.err = ErrNil
       /\ Returned => /\ rch.err = ErrNotTLS
                      /\ Len(rch.st.hand) >= 4 + U24(rch.st.hand, 1)
  /\ (Returned /\ rch.st.err # ErrNil) => rch.err = rch.st.err

\* C31 witness: a ClientHello that decodes when read whole, its first record
\* of 3 bytes: "not a tls packet" after one readRecord, the records after it
\* unread.
C31_Witness ==
  /\ rch.pc = "done" /\ rch.case.kind = "records"
  /\ ReadClientHello(rch.case.whole).err = ErrNil
  /\ Len(rch.st.hand) = 3 /\ rch.records = 1
  /\ rch.err = ErrNotTLS
  /\ pendingBytes # <<>>

\* a message of the type 2 in two records is rejected after the second record
OtherMessageRejectedLate ==
  /\ rch.pc = "done" /\ rch.case.kind = "other" /\ rch.records = 2
  /\ rch.err = ErrNotTLS /\ Len(rch.st.hand) = Len(otherMessage)

\* the body of the first extension of a ClientHello b without session id and
\* with one cipher suite, by the length the extension declares
firstExtensionBody(b) ==
  Sub(b, hostOffset(helloRandom, <<>>, oneSuite, <<>>) - 5,
      hostOffset(helloRandom, <<>>, oneSuite, <<>>) - 5
        + U16(b, hostOffset(helloRandom, <<>>, oneSuite, <<>>) - 7))

RECURSIVE nameWithin(_)
\* the hostname of the name entries d read from d alone: the name of the
\* first entry of the name type 0; no name when d has no such entry; not ok
\* when an entry does not fit into d
nameWithin(d) ==
  IF Len(d) = 0 THEN [ok |-> TRUE, name |-> <<>>]
  ELSE IF Len(d) < 3 \/ Len(d) - 3 < U16(d, 1) THEN [ok |-> FALSE, name |-> <<>>]
  ELSE IF At(d, 0) = 0 THEN [ok |-> TRUE, name |-> Sub(d, 3, 3 + U16(d, 1))]
  ELSE nameWithin(From(d, 3 + U16(d, 1)))

\* C32: the name entries of a server_name extension are read from the body of
\* the extension only: ServerName is the hostname the entries within the body
\* give, and an entry that does not fit into the body makes the decoding fail;
\* the bytes of the extensions after it are not read as name entries.
C32_ServerNameWithinBody ==
  (Returned /\ rch.case.kind = "body") =>
    IF nameWithin(From(firstExtensionBody(rch.case.b), 2)).ok
    THEN /\ rch.err = ErrNil
         /\ rch.msg.ServerName = nameWithin(From(firstExtensionBody(rch.case.b), 2)).name
    ELSE rch.err # ErrNil

\* a server name made of the bytes of the extensions after server_name
ServerNameFromNextExtension ==
  /\ rch.pc = "done" /\ rch.case.kind = "body" /\ rch.err = ErrNil
  /\ rch.msg.ServerName = <<0, 4, 101, 118, 105, 108>>

\* the attempts of a that succeeded, by their places
succeeded(a) == {j \in 1..Len(a) : a[j].err = ErrNil}

RECURSIVE sumOver(_, _, _)
\* the sum of the durations d of the attempts of a at the places S
sumOver(a, S, d) ==
  IF S = {} THEN 0
  ELSE a[MinOf(S)][d] + sumOver(a, S \ {MinOf(S)}, d)

\* the mean duration d of the attempts of a that succeeded, 0 without one
meanOfSucceeded(a, d) ==
  IF succeeded(a) = {} THEN 0
  ELSE sumOver(a, succeeded(a), d) \div Cardinality(succeeded(a))

\* the row has of the attempts a the status and the durations claimed
rowTells(row, a) ==
  /\ row.status.word = "Failed" <=> succeeded(a) = {}
  /\ row.status.word = "Success" <=> (Len(a) >= 1 /\ succeeded(a) = 1..Len(a))
  /\ row.status.word \in {"Failed", "Success", "Partial"}
  /\ row.status.successCount = Cardinality(succeeded(a))
  /\ row.status.totalAttempts = Len(a)
  /\ row.transport = formatDur(meanOfSucceeded(a, "TransportEstablishDuration"))
  /\ row.tls = formatDur(meanOfSucceeded(a, "TLSHandshakeDuration"))
  /\ succeeded(a) = {} => (row.transport = <<"0 ms">> /\ row.tls = <<"0 ms">>)

\* C33: the table has one row for every test and target, made of as many
\* attempts as --repeat says; the row says "Failed" exactly when no attempt
\* succeeded, "Success" exactly when there is an attempt and all succeeded,
\* and else "Partial"; its durations are the means over the attempts that
\* succeeded, and 0 when none did, as when --repeat is 0.
C33_StatusAndAverages ==
  run.pc = "done" =>
    /\ Len(run.table) = numTests * Len(run.targets)
    /\ \A i \in 1..numTests : \A x \in 1..Len(run.targets) :
         /\ Len(run.attempts[i][x].Attempts) = run.repeat
         /\ run.table[(i - 1) * Len(run.targets) + x].testName = i
         /\ run.table[(i - 1) * Len(run.targets) + x].AddrPort = run.targets[x]
         /\ rowTells(run.table[(i - 1) * Len(run.targets) + x], run.attempts[i][x].Attempts)

\* a table with a row "Partial (2/3)" whose first attempt failed after the
\* transport was established, and whose durations are those of the two others
C33_Witness ==
  /\ run.pc = "done"
  /\ \E k \in 1..Len(run.table) :
       /\ run.table[k].status = [word |-> "Partial", successCount |-> 2, totalAttempts |-> 3]
       /\ run.table[k].transport = <<10, 9, "ms">>
       /\ run.table[k].tls = <<21, 6, "ms">>

\* a table of a run with --repeat 0: every row "Failed (0/0)" with 0 ms
FailedWithoutAttempt ==
  /\ run.pc = "done" /\ run.repeat = 0
  /\ \A k \in 1..Len(run.table) :
       /\ run.table[k].status = [word |-> "Failed", successCount |-> 0, totalAttempts |-> 0]
       /\ run.table[k].transport = <<"0 ms">>

\* the bytes of the input that no record read so far has taken: those the
\* reader has not given yet and those nextBlock holds
InputLeft ==
  (Len(rch.st.rd.s) - rch.st.rd.i)
    + (IF rch.st.nextBlock.isNil THEN 0 ELSE Len(rch.st.nextBlock.data))

\* ReadClientHello has returned a message and no error, or an error and no
\* message
MessageOrError ==
  Returned => IF rch.err = ErrNil THEN rch.msg.Raw # <<>> ELSE rch.msg = newClientHelloMsg

\* a pass of the loop for hand.Len() < 4+n that does not return takes a whole
\* record, 5 bytes or more, from the input.  Every step is the step that the
\* fairness of SpecHelloLive is about.
LoopConsumes ==
  (rch.pc = "more" /\ rch'.pc = "more") => InputLeft' <= InputLeft - recordHeaderLen

\* C34: ReadClientHello returns on every input, with a message or with an
\* error, and every pass of its loop that does not return takes at least
\* the 5 bytes of a record header from the input: so on the empty input, on
\* records of payload length 0 and on a handshake length beyond the data.
C34_Terminates ==
  /\ []MessageOrError
  /\ [][LoopConsumes /\ HelloStep]_vars
  /\ <>Returned

\* a ClientHello returned after five records, three of them of length 0
C34_Witness ==
  /\ Returned /\ rch.case.kind = "zero" /\ rch.err = ErrNil /\ rch.records = 5
  /\ rch.msg.ServerName = hostAB

\* a stream of a message header that declares 0xFFFFFF bytes and records of
\* length 0 after it: ReadClientHello returns io.EOF after the last of them
ZeroRecordsThenEOF ==
  /\ Returned /\ rch.case.kind = "zero" /\ rch.err = ErrEOF /\ rch.records = 4
  /\ rch.n = 16777215

\* the Write call of w, past its Lock(), goes as a first write or as a later
\* one by its place among the calls; a first write has the plan that parsing
\* its bytes gives, a later one makes one conn.Write, of the caller's bytes
FirstOrPassedThrough(w) ==
  /\ wr[w].first <=> wr[w].call = 1
  /\ wr[w].first => wr[w].frag = planOf[wr[w].b].frag
  /\ ~wr[w].first =>
       /\ wr[w].pc \in {"pass", "ret"}
       /\ Len(logOf(wr[w].call)) = (IF wr[w].pc = "ret" THEN 1 ELSE 0)
       /\ \A k \in DOMAIN logOf(wr[w].call) :
            /\ logOf(wr[w].call)[k].zone = -1
            /\ logOf(wr[w].call)[k].data = wr[w].b

\* the Write call of w leaves its Lock(): it has the mutex that was free, goes
\* as a first write when the flag was set, and leaves the flag cleared
FlagTakenUnderLock(w) ==
  (wr[w].pc = "lock" /\ wr'[w].pc # "lock") =>
    /\ writeMutex = NoOne /\ writeMutex' = w
    /\ wr'[w].first = isFirstWrite
    /\ ~isFirstWrite'

\* C35: of the Write calls issued together on a new adapter one is handled as
\* the first write, the one that takes the lock first, and every other makes
\* one conn.Write of its bytes; the flag is read and cleared by the call that
\* holds the write lock, so no two calls go as first writes.
C35_OneFirstWrite ==
  /\ [](/\ Cardinality({w \in Writers : InWrite(w) /\ wr[w].first}) <= 1
        /\ \A w \in Writers : InWrite(w) => FirstOrPassedThrough(w))
  /\ [][\A w \in Writers : FlagTakenUnderLock(w)]_vars

\* two Write calls of ClientHellos with a server name were issued together:
\* w2 is the first write, asleep between two fragments, and w1 waits for the
\* lock
C35_Witness ==
  /\ wr["w1"].pc = "lock" /\ wr["w1"].b \in WithServerName
  /\ wr["w2"].pc = "sleep" /\ wr["w2"].first /\ wr["w2"].frag
  /\ wr["w2"].b \in WithServerName

\* the call that waited has been passed through after the first write: one
\* conn.Write of its ClientHello
WaitingCallPassedThrough ==
  /\ wr["w1"].pc = "ret" /\ wr["w1"].call = 2 /\ ~wr["w1"].first
  /\ wr["w1"].b \in WithServerName /\ wr["w1"].err = ErrNil
  /\ wr["w2"].pc = "idle" /\ Len(logOf(2)) = 1

\* the Read call of r is between its Lock() and its return
InRead(r) == rdr[r].pc \in {"read", "ret"}

\* the write lock is held by the Write call in progress and by nothing else,
\* and the read lock by the Read call in progress
LocksHeldByCalls ==
  /\ writeMutex \in Writers \cup {NoOne}
  /\ readMutex \in Readers \cup {NoOne}
  /\ \A w \in Writers : writeMutex = w <=> InWrite(w)
  /\ \A r \in Readers : readMutex = r <=> InRead(r)

\* a call that waits in Lock() can take the lock, or the lock is held by a
\* call in progress, which waits for no lock
NoCallWaitsInVain ==
  /\ \A w \in Writers : wr[w].pc = "lock" =>
       (ENABLED WriteLock(w)) \/ (\E v \in Writers \ {w} : InWrite(v))
  /\ \A r \in Readers : rdr[r].pc = "lock" =>
       (ENABLED ReadLock(r)) \/ (\E q \in Readers \ {r} : InRead(q))

\* a call that returns does so from its return statement, whatever it
\* returns, and leaves its lock free and the other lock as it was
ReturnReleases ==
  /\ \A w \in Writers : (InWrite(w) /\ ~InWrite(w)') =>
       /\ wr[w].pc = "ret" /\ writeMutex' = NoOne /\ readMutex' = readMutex
  /\ \A r \in Readers : (InRead(r) /\ ~InRead(r)') =>
       /\ rdr[r].pc = "ret" /\ readMutex' = NoOne /\ writeMutex' = writeMutex

\* C36: the write lock is held only by a Write call from its Lock() to its
\* return and the read lock only by a Read call, so no call holds both; a
\* call that waits for a lock waits for a call in progress that waits for
\* none; and every return, with or without an error, frees the lock of the
\* call and leaves the other lock alone.
C36_LocksReleased ==
  /\ [](LocksHeldByCalls /\ NoCallWaitsInVain)
  /\ [][ReturnReleases]_vars

\* a first write that was fragmented is about to return the error of the
\* transport while another Write call waits for the lock and a Read call
\* holds the read lock
C36_Witness ==
  /\ wr["w1"].pc = "ret" /\ wr["w1"].first /\ wr["w1"].frag /\ wr["w1"].err # ErrNil
  /\ writeMutex = "w1" /\ wr["w2"].pc = "lock"
  /\ readMutex = "r1"

\* the first call has returned and the call that waited can take the lock
LockFreeForNextCaller ==
  /\ writes = 1 /\ wr["w1"].pc = "idle" /\ writeMutex = NoOne
  /\ wr["w2"].pc = "lock" /\ ENABLED WriteLock("w2")

\* Close and the deadline setters can be called whatever the calls of Write
\* and Read are at, as long as the connection is open
ForwardedAtOnce ==
  ~conn.closed =>
    /\ ENABLED Close
    /\ \A t \in Deadlines :
         /\ conn.readDeadline # t => ENABLED SetReadDeadline(t)
         /\ conn.writeDeadline # t => ENABLED SetWriteDeadline(t)
         /\ (conn.readDeadline # t \/ conn.writeDeadline # t) => ENABLED SetDeadline(t)

\* a step that closes the connection or sets a deadline changes nothing of
\* the adapter and of its calls
TransportOnly ==
  (\/ conn'.closed # conn.closed
   \/ conn'.readDeadline # conn.readDeadline
   \/ conn'.writeDeadline # conn.writeDeadline) =>
    UNCHANGED <<isFirstWrite, writeMutex, readMutex, wr, rdr, writes, reads, connLog>>

\* a fragmented Write returns an error only from a conn.Write that returned
\* it, and then that error; on a closed connection its next conn.Write ends
\* it, while the end of a sleep does not
StopsOnWriteError(w) ==
  /\ (wr[w].pc \in {"frag", "sleep"} /\ wr'[w].pc = "ret") =>
       IF wr'[w].err = ErrNil THEN wr'[w].i = 3
       ELSE /\ wr[w].pc = "frag"
            /\ Len(connLog') = Len(connLog) + 1
            /\ connLog'[Len(connLog')].call = wr[w].call
            /\ connLog'[Len(connLog')].err = wr'[w].err
  /\ (wr[w].pc = "frag" /\ wr'[w] # wr[w]) =>
       /\ connLog'[Len(connLog')].err # ErrNil =>
            (wr'[w].pc = "ret" /\ wr'[w].err = connLog'[Len(connLog')].err)
       /\ conn.closed => connLog'[Len(connLog')].err = ErrClosed
  /\ (wr[w].pc = "sleep" /\ wr'[w] # wr[w]) =>
       (wr'[w].err = ErrNil /\ wr'[w].pc \in {"frag", "ret"})

\* C37: Close, SetDeadline, SetReadDeadline and SetWriteDeadline can be
\* called at any point of a Write or Read, a fragmented Write between two
\* fragments or asleep included; they change the transport alone; and a
\* fragmented Write ends before its last fragment only when a conn.Write
\* returns an error, which the Write returns.
C37_ForwardedWithoutLocks ==
  /\ []ForwardedAtOnce
  /\ [][TransportOnly /\ \A w \in Writers : StopsOnWriteError(w)]_vars

\* a fragmented Write wrote fragments, the connection was closed, and the
\* next conn.Write returned the error that the Write returns
C37_Witness ==
  \E w \in Writers :
    /\ wr[w].pc = "ret" /\ wr[w].first /\ wr[w].frag
    /\ wr[w].err = ErrClosed /\ conn.closed
    /\ Len(logOf(wr[w].call)) >= 2
    /\ logOf(wr[w].call)[1].err = ErrNil

\* the connection was closed while the Write slept after a fragment
ClosedWhileAsleep ==
  \E w \in Writers :
    /\ wr[w].pc = "sleep" /\ wr[w].first /\ conn.closed /\ writeMutex = w
    /\ logOf(wr[w].call)[Len(logOf(wr[w].call))].err = ErrNil

\* ReadClientHello call by call returns what ReadClientHello returns
StepwiseAgrees ==
  rch.pc \in {"done", "split"} =>
    /\ rch.err = ReadClientHello(rch.case.b).err
    /\ rch.msg = ReadClientHello(rch.case.b).msg

====
